---------------------------- MODULE Spec2Model ----------------------------
(*
  ArchDrift conformance engine: classifier, readiness gate, rule checker,
  cycle engine, baseline store and snapshot registry, modelled from
  src/backend.

  Python values are modelled as follows.
    - None is the model value None.
    - A dict is a function whose DOMAIN is the set of keys present; Get(d,k,x)
      is d.get(k, x).
    - A list is a sequence.
    - Module names are the naturals 1..NumModules, ordered as the names are
      ordered lexicographically; an edge {"from": f, "to": t} is <<f, t>>.
    - SHA-256 is an injective tagging of its input (no collisions).
    - A timestamp is an ISO 8601 string, which the code compares as a string;
      it is the natural that gives its position in lexicographic order.  The
      strings datetime.now(timezone.utc).isoformat() returns are ordered as
      their instants are, so the clock is such a natural too.
*)
EXTENDS Integers, Sequences, FiniteSets, TLC

\* Python's None.  Optional scalars are wrapped: Some(v), so that every optional
\* value can be compared with None.
None == [none |-> TRUE]
Some(v) == [some |-> v]

Get(d, k, default) == IF k \in DOMAIN d THEN d[k] ELSE default

Range(s) == {s[i] : i \in 1..Len(s)}

(***************************************************************************)
(* Bounds of the model.                                                    *)
(***************************************************************************)
\* largest count value / list length fed to the classifier
MaxCount == 1

\* number of edges of the universe the rule checker harness draws from
MaxRuleEdges == 2

\* cycle engine harness: module names 1..NumCycleModules, edge lists of at most
\* MaxCycleEdges edges, max_cycles arguments 0..MaxCyclesArg
NumCycleModules == 3
MaxCycleEdges == 4
MaxCyclesArg == 2

\* drift engine harness: file counts 0..MaxFiles in the graph statistics of a
\* commit delta, max_drifts arguments 0..MaxDrifts
MaxFiles == 2
MaxDrifts == 1

\* drift engine, lists of commits: at most MaxCommits commits
MaxCommits == 2

\* baseline store: the wall clock runs from 0 to MaxClock
MaxClock == 2

VARIABLES
  analysis,     \* classifier harness: the dict handed to classify_drift
  classified,   \* classifier harness: the dict classify_drift returned, or None
  rulesIn,      \* rule checker harness: arguments of check_rules and the clock
  rulesOut,     \* rule checker harness: the dict check_rules returned, or None
  cyclesIn,     \* cycle engine harness: arguments of detect_cycles
  cyclesOut,    \* cycle engine harness: the dict detect_cycles returned, or None
  driftIn,      \* drift engine: arguments of commits_to_drifts
  driftOut,     \* drift engine: [drifts |-> the list commits_to_drifts returned], or None
  files,        \* baseline directory: the content of each of its four files
  clock,        \* the wall clock, read by datetime.now
  storeIn,      \* baseline store harness: the edge lists stored before and now
  writer,       \* the thread that runs generate_baseline / store_baseline
  reader,       \* the thread that runs load_baseline
  request,      \* the coroutine of generate_baseline_endpoint
  lastOp,       \* baseline service: the last operation called and what it returned
  snapFiles,    \* snapshot registry: module_map.json and metadata.json of each snapshot directory
  workers,      \* the pool threads that run _create_arch_snapshot_worker
  snapSeen,     \* history: what the last returned create call with given inputs returned
  pathIn,       \* path mapper harness: the argument of normalize_repo_path
  pathOut,      \* path mapper harness: [path |-> the string normalize_repo_path returned], or None
  latestDrifts, \* services/drift_store.py: _LATEST_DRIFTS, None or [drifts |-> the list]
  analyses,     \* each POST /analyze-repo request: its coroutine and its job in the thread pool
  scanIn,       \* graph harness: the operation called (build_dependency_graph or build_commit_delta) and its arguments
  scanOut,      \* graph harness: the dict the operation returned, or None
  configIn,     \* configuration loader harness: the documents of module_map.json, allowed_rules.json and exceptions.json
  configOut     \* configuration loader harness: what load_architecture_config returned or raised, or None

classifierVars == <<analysis, classified>>
rulesVars == <<rulesIn, rulesOut>>
cyclesVars == <<cyclesIn, cyclesOut>>
driftVars == <<driftIn, driftOut>>
storeVars == <<files, clock, storeIn, writer, reader, request, lastOp>>
snapVars == <<snapFiles, workers, snapSeen>>
pathVars == <<pathIn, pathOut>>
cacheVars == <<latestDrifts, analyses>>
scanVars == <<scanIn, scanOut>>
configVars == <<configIn, configOut>>
vars == <<classifierVars, rulesVars, cyclesVars, driftVars, storeVars, snapVars, pathVars, cacheVars, scanVars, configVars>>

\* a component that is not running in the specification at hand
ClassifierIdle == analysis = None /\ classified = None
RulesIdle == rulesIn = None /\ rulesOut = None
CyclesIdle == cyclesIn = None /\ cyclesOut = None
DriftIdle == driftIn = None /\ driftOut = None
StoreIdle ==
  /\ files = None /\ clock = 0 /\ storeIn = None /\ writer = None /\ reader = None
  /\ request = None /\ lastOp = None
SnapIdle == snapFiles = None /\ workers = None /\ snapSeen = None
PathIdle == pathIn = None /\ pathOut = None
CacheIdle == latestDrifts = None /\ analyses = None
ScanIdle == scanIn = None /\ scanOut = None
ConfigIdle == configIn = None /\ configOut = None

\* the variables of all the components but one
notClassifierVars == <<rulesVars, cyclesVars, driftVars, storeVars, snapVars, pathVars, cacheVars, scanVars, configVars>>
notRulesVars == <<classifierVars, cyclesVars, driftVars, storeVars, snapVars, pathVars, cacheVars, scanVars, configVars>>
notCyclesVars == <<classifierVars, rulesVars, driftVars, storeVars, snapVars, pathVars, cacheVars, scanVars, configVars>>
notDriftVars == <<classifierVars, rulesVars, cyclesVars, storeVars, snapVars, pathVars, cacheVars, scanVars, configVars>>
notStoreVars == <<classifierVars, rulesVars, cyclesVars, driftVars, snapVars, pathVars, cacheVars, scanVars, configVars>>
notSnapVars == <<classifierVars, rulesVars, cyclesVars, driftVars, storeVars, pathVars, cacheVars, scanVars, configVars>>
notPathVars == <<classifierVars, rulesVars, cyclesVars, driftVars, storeVars, snapVars, cacheVars, scanVars, configVars>>
notCacheVars == <<classifierVars, rulesVars, cyclesVars, driftVars, storeVars, snapVars, pathVars, scanVars, configVars>>
notScanVars == <<classifierVars, rulesVars, cyclesVars, driftVars, storeVars, snapVars, pathVars, cacheVars, configVars>>
notConfigVars == <<classifierVars, rulesVars, cyclesVars, driftVars, storeVars, snapVars, pathVars, cacheVars, scanVars>>

(***************************************************************************)
(* Sorting of reason codes: sorted(reason_codes) on Python strings.        *)
(* CodeRank is the position of each code in lexicographic order.           *)
(***************************************************************************)
CodeRank(c) ==
  CASE c = "BASELINE_EMPTY"          -> 1
    [] c = "BASELINE_MISSING"        -> 2
    [] c = "MAPPING_TOO_LOW"         -> 3
    [] c = "NO_SOURCE_FILES"         -> 4
    [] c = "allowed_edges_changed"   -> 5
    [] c = "compare_failed"          -> 6
    [] c = "cycles_added"            -> 7
    [] c = "cycles_removed"          -> 8
    [] c = "forbidden_edges_added"   -> 9
    [] c = "forbidden_edges_removed" -> 10
    [] c = "missing_compare"         -> 11
    [] c = "missing_cycles"          -> 12
    [] c = "missing_rules"           -> 13

\* insert code c into the sorted sequence s, keeping it sorted (stable)
RECURSIVE InsertCode(_, _)
InsertCode(c, s) ==
  IF s = <<>> THEN <<c>>
  ELSE IF CodeRank(c) < CodeRank(Head(s)) THEN <<c>> \o s
  ELSE <<Head(s)>> \o InsertCode(c, Tail(s))

\* sorted(codes) for a list of codes
RECURSIVE SortedCodes(_)
SortedCodes(s) ==
  IF s = <<>> THEN <<>> ELSE InsertCode(s[Len(s)], SortedCodes(SubSeq(s, 1, Len(s) - 1)))

(***************************************************************************)
(* Edges.  Module name 0 models the empty string "" (an invalid endpoint). *)
(***************************************************************************)
\* the sort key (t[0], t[1]) compared as Python compares tuples
EdgeLess(a, b) == a[1] < b[1] \/ (a[1] = b[1] /\ a[2] < b[2])

MinEdge(S) == CHOOSE e \in S : \A f \in S : f = e \/ EdgeLess(e, f)

\* sorted(edge_set, key=lambda t: (t[0], t[1]))
RECURSIVE SortEdges(_)
SortEdges(S) ==
  IF S = {} THEN <<>> ELSE <<MinEdge(S)>> \o SortEdges(S \ {MinEdge(S)})

(***************************************************************************)
(* utils/conformance_compare.py : normalize_edge_input                     *)
(***************************************************************************)
\* an edge passes validation iff both endpoints are non-empty strings
ValidEdge(e) == e[1] # 0 /\ e[2] # 0

\* normalize_edge_input raises ValueError
EdgeInputRaises(edges) == \E i \in 1..Len(edges) : ~ValidEdge(edges[i])

\* normalize_edge_input returns this set when it does not raise
normalize_edge_input(edges) == Range(edges)

(***************************************************************************)
(* utils/rule_checker.py                                                   *)
(***************************************************************************)
build_allowed_set_from_rules(config) == Range(config.allowed_edges)

\* the exception is skipped: a missing endpoint, or expires_at <= now
ExceptionSkipped(exc, now) ==
  \/ exc.from_module = 0 \/ exc.to_module = 0
  \/ (exc.expires_at # None /\ exc.expires_at.some <= now)

\* exception_set of build_exception_set_and_map
build_exception_set(active_exceptions, now) ==
  {<<active_exceptions[i].from_module, active_exceptions[i].to_module>> :
     i \in {j \in 1..Len(active_exceptions) : ~ExceptionSkipped(active_exceptions[j], now)}}

RulesError(code) ==
  [ok |-> FALSE, forbidden_edges_added |-> <<>>, forbidden_edges_removed |-> <<>>,
   allowed_via_exception |-> <<>>, violations |-> <<>>,
   counts |-> [edges_added |-> 0, edges_removed |-> 0, forbidden_added |-> 0,
               forbidden_removed |-> 0, exception_allowed |-> 0],
   error |-> [code |-> code]]

\* mutant of ForbiddenAddedSet: the permissive mode is forgotten
ForbiddenAddedSet_NoPermissive(config, edges_added_set) ==
  edges_added_set \ build_allowed_set_from_rules(config)

\* forbidden_added_set, before exceptions are applied
ForbiddenAddedSet(config, edges_added_set) ==
  IF ~config.deny_by_default /\ Cardinality(build_allowed_set_from_rules(config)) = 0
    THEN {}
    ELSE edges_added_set \ build_allowed_set_from_rules(config)

\* exception_allowed_set
ExceptionAllowedSet(forbidden_added_set, exception_set) ==
  forbidden_added_set \cap exception_set

check_rules(compare_result, config, active_exceptions, now) ==
  LET edges_added   == Get(compare_result, "edges_added", <<>>)
      edges_removed == Get(compare_result, "edges_removed", <<>>)
  IN
  IF EdgeInputRaises(edges_added) THEN RulesError("invalid_edges_added")
  ELSE IF EdgeInputRaises(edges_removed) THEN RulesError("invalid_edges_removed")
  ELSE
    LET edges_added_set   == normalize_edge_input(edges_added)
        edges_removed_set == normalize_edge_input(edges_removed)
        exception_set     == build_exception_set(active_exceptions, now)
        forbidden_added_set == ForbiddenAddedSet(config, edges_added_set)
        exception_allowed_set == ExceptionAllowedSet(forbidden_added_set, exception_set)
        forbidden_added_final_set == forbidden_added_set \ exception_allowed_set
        forbidden_removed_set == {}
        final == SortEdges(forbidden_added_final_set)
    IN  [ok |-> Cardinality(forbidden_added_final_set) = 0
                /\ Cardinality(forbidden_removed_set) = 0,
         forbidden_edges_added   |-> final,
         forbidden_edges_removed |-> SortEdges(forbidden_removed_set),
         allowed_via_exception   |-> SortEdges(exception_allowed_set),
         violations |-> [i \in 1..Len(final) |->
                           [type |-> "forbidden_added", edge |-> final[i]]],
         counts |-> [edges_added       |-> Cardinality(edges_added_set),
                     edges_removed     |-> Cardinality(edges_removed_set),
                     forbidden_added   |-> Cardinality(forbidden_added_final_set),
                     forbidden_removed |-> Cardinality(forbidden_removed_set),
                     exception_allowed |-> Cardinality(exception_allowed_set)],
         error |-> None]

(***************************************************************************)
(* utils/cycle_detector.py                                                 *)
(***************************************************************************)
\* Python's tuple comparison a < b on tuples of module names
RECURSIVE TupleLess(_, _)
TupleLess(a, b) ==
  IF b = <<>> THEN FALSE
  ELSE IF a = <<>> THEN TRUE
  ELSE IF Head(a) # Head(b) THEN Head(a) < Head(b)
  ELSE TupleLess(Tail(a), Tail(b))

\* index of the first occurrence of the smallest module of a non-empty list
MinIndex(cycle) ==
  CHOOSE i \in 1..Len(cycle) :
    /\ \A j \in 1..Len(cycle) : cycle[i] <= cycle[j]
    /\ \A j \in 1..(i - 1) : cycle[j] # cycle[i]

\* cycle[min_idx:] + cycle[:min_idx]
RotateTo(cycle, i) == SubSeq(cycle, i, Len(cycle)) \o SubSeq(cycle, 1, i - 1)

Reversed(cycle) == [i \in 1..Len(cycle) |-> cycle[Len(cycle) + 1 - i]]

\* canonicalise_cycle without the comparison with the reversed cycle
canonicalise_cycle_ForwardOnly(cycle) ==
  IF cycle = <<>> THEN <<>>
  ELSE IF Len(cycle) = 1 THEN <<cycle[1]>>
  ELSE RotateTo(cycle, MinIndex(cycle))

canonicalise_cycle(cycle) ==
  IF cycle = <<>> THEN <<>>
  ELSE IF Len(cycle) = 1 THEN <<cycle[1]>>
  ELSE LET forward_tuple  == RotateTo(cycle, MinIndex(cycle))
           reversed_cycle == Reversed(cycle)
           reversed_tuple == RotateTo(reversed_cycle, MinIndex(reversed_cycle))
       IN  IF TupleLess(reversed_tuple, forward_tuple) THEN reversed_tuple
           ELSE forward_tuple

\* adjacency[node], sorted
RECURSIVE SortNodes(_)
SortNodes(S) ==
  IF S = {} THEN <<>>
  ELSE LET m == CHOOSE x \in S : \A y \in S : x <= y
       IN  <<m>> \o SortNodes(S \ {m})

Adjacency(edge_set, node) == SortNodes({e[2] : e \in {f \in edge_set : f[1] = node}})

\* path.index(node)
IndexOf(path, node) == CHOOSE i \in 1..Len(path) :
                          path[i] = node /\ \A j \in 1..(i - 1) : path[j] # node

\* cycles_set.add(canonical); if len(cycles_set) >= max_cycles: truncated = True
CycleFound(st, canonical, max_cycles) ==
  LET cs == st.cycles \cup {canonical}
  IN  [st EXCEPT !.cycles = cs,
                 !.truncated = (Cardinality(cs) >= max_cycles)]

\* dfs_cycles(node, path, visited_complete); st carries cycles_set, truncated
\* and visited_complete, which the Python closure shares between the calls
RECURSIVE dfs_cycles(_, _, _, _, _), dfs_neighbors(_, _, _, _, _)
dfs_cycles(edge_set, max_cycles, node, path, st) ==
  IF st.truncated THEN st
  ELSE IF node \in Range(path)
    THEN CycleFound(st, canonicalise_cycle(SubSeq(path, IndexOf(path, node), Len(path))),
                    max_cycles)
  ELSE IF node \in st.visited THEN st
  ELSE LET after == dfs_neighbors(edge_set, max_cycles, Adjacency(edge_set, node),
                                  path \o <<node>>, st)
       IN  IF after.truncated THEN after
           ELSE [after EXCEPT !.visited = @ \cup {node}]

\* for neighbor in adjacency[node]: dfs_cycles(...); if truncated: return
dfs_neighbors(edge_set, max_cycles, nbrs, path, st) ==
  IF nbrs = <<>> THEN st
  ELSE LET after == dfs_cycles(edge_set, max_cycles, Head(nbrs), path, st)
       IN  IF after.truncated THEN after
           ELSE dfs_neighbors(edge_set, max_cycles, Tail(nbrs), path, after)

\* dfs_starts that stops after the first start node
dfs_starts_FirstOnly(edge_set, max_cycles, starts, st) ==
  IF starts = <<>> THEN st
  ELSE dfs_cycles(edge_set, max_cycles, Head(starts), <<>>, st)

\* for start_node in sorted(all_nodes): ...; if truncated: break
RECURSIVE dfs_starts(_, _, _, _)
dfs_starts(edge_set, max_cycles, starts, st) ==
  IF starts = <<>> THEN st
  ELSE IF Head(starts) \in st.visited
    THEN dfs_starts(edge_set, max_cycles, Tail(starts), st)
  ELSE LET after == dfs_cycles(edge_set, max_cycles, Head(starts), <<>>, st)
       IN  IF after.truncated THEN after
           ELSE dfs_starts(edge_set, max_cycles, Tail(starts), after)

\* sorted(cycles_set)
RECURSIVE SortTuples(_)
SortTuples(S) ==
  IF S = {} THEN <<>>
  ELSE LET m == CHOOSE x \in S : \A y \in S : x = y \/ TupleLess(x, y)
       IN  <<m>> \o SortTuples(S \ {m})

NoCycles == [cycles |-> <<>>, cycles_count |-> 0, truncated |-> FALSE]

detect_cycles(edges, max_cycles) ==
  IF EdgeInputRaises(edges) THEN NoCycles
  ELSE IF normalize_edge_input(edges) = {} THEN NoCycles
  ELSE LET edge_set  == normalize_edge_input(edges)
           all_nodes == {e[1] : e \in edge_set} \cup {e[2] : e \in edge_set}
           st == dfs_starts(edge_set, max_cycles, SortNodes(all_nodes),
                            [cycles |-> {}, truncated |-> FALSE, visited |-> {}])
           cycles_list == SortTuples(st.cycles)
       IN  [cycles |-> cycles_list, cycles_count |-> Len(cycles_list),
            truncated |-> st.truncated]

(***************************************************************************)
(* utils/drift_classifier.py : classify_drift                              *)
(***************************************************************************)
ZeroSummary ==
  [edges_added_count |-> 0, edges_removed_count |-> 0,
   forbidden_edges_added_count |-> 0, forbidden_edges_removed_count |-> 0,
   cycles_added_count |-> 0, cycles_removed_count |-> 0]

\* reason codes of the missing-data path, in the order the code appends them
MissingCodes(a) ==
  (IF a.compare = None THEN <<"missing_compare">> ELSE <<>>)
  \o (IF a.rules = None THEN <<"missing_rules">>
      ELSE IF Get(a.rules, "error", None) # None THEN <<"missing_rules">> ELSE <<>>)
  \o (IF a.cycles = None THEN <<"missing_cycles">> ELSE <<>>)

\* part.get("counts", {}).get(key, len(part.get(listKey, [])))
CountOf(part, key, listKey) ==
  Get(Get(part, "counts", <<>>), key, Len(Get(part, listKey, <<>>)))

\* the six counts extracted "with fallbacks"
ExtractSummary(a) ==
  [edges_added_count             |-> CountOf(a.compare, "divergence", "edges_added"),
   edges_removed_count           |-> CountOf(a.compare, "absence", "edges_removed"),
   forbidden_edges_added_count   |-> CountOf(a.rules, "forbidden_added", "forbidden_edges_added"),
   forbidden_edges_removed_count |-> CountOf(a.rules, "forbidden_removed", "forbidden_edges_removed"),
   cycles_added_count            |-> CountOf(a.cycles, "cycles_added_count", "cycles_added"),
   cycles_removed_count          |-> CountOf(a.cycles, "cycles_removed_count", "cycles_removed")]

\* mutant of ClassifyCounts: the positive rule is tried before the negative rule
ClassifyCounts_PositiveFirst(s) ==
  LET EA == s.edges_added_count
      ER == s.edges_removed_count
      FA == s.forbidden_edges_added_count
      FR == s.forbidden_edges_removed_count
      CA == s.cycles_added_count
      CR == s.cycles_removed_count
  IN  IF EA = 0 /\ ER = 0 /\ CA = 0 /\ CR = 0
        THEN [classification |-> "no_change", reason_codes |-> <<>>, summary |-> s]
      ELSE IF FR > 0 \/ CR > 0
        THEN [classification |-> "positive",
              reason_codes |-> <<"forbidden_edges_removed">>, summary |-> s]
      ELSE IF FA > 0 \/ CA > 0
        THEN [classification |-> "negative",
              reason_codes |-> <<"forbidden_edges_added">>, summary |-> s]
      ELSE [classification |-> "needs_review",
            reason_codes |-> <<"allowed_edges_changed">>, summary |-> s]

\* the four classification rules applied to the extracted counts
ClassifyCounts(s) ==
  LET EA == s.edges_added_count
      ER == s.edges_removed_count
      FA == s.forbidden_edges_added_count
      FR == s.forbidden_edges_removed_count
      CA == s.cycles_added_count
      CR == s.cycles_removed_count
  IN  IF EA = 0 /\ ER = 0 /\ CA = 0 /\ CR = 0
        THEN [classification |-> "no_change", reason_codes |-> <<>>, summary |-> s]
      ELSE IF FA > 0 \/ CA > 0
        THEN [classification |-> "negative",
              reason_codes |-> SortedCodes(
                 (IF FA > 0 THEN <<"forbidden_edges_added">> ELSE <<>>)
                 \o (IF CA > 0 THEN <<"cycles_added">> ELSE <<>>)),
              summary |-> s]
      ELSE IF FR > 0 \/ CR > 0
        THEN [classification |-> "positive",
              reason_codes |-> SortedCodes(
                 (IF FR > 0 THEN <<"forbidden_edges_removed">> ELSE <<>>)
                 \o (IF CR > 0 THEN <<"cycles_removed">> ELSE <<>>)),
              summary |-> s]
      ELSE [classification |-> "needs_review",
            reason_codes |-> <<"allowed_edges_changed">>, summary |-> s]

\* classify_drift with the codes of the missing-data path in the order they were appended
classify_drift_Unsorted(a) ==
  IF MissingCodes(a) # <<>>
    THEN [classification |-> "unknown",
          reason_codes |-> MissingCodes(a),
          summary |-> ZeroSummary]
    ELSE ClassifyCounts(ExtractSummary(a))

classify_drift(a) ==
  IF MissingCodes(a) # <<>>
    THEN [classification |-> "unknown",
          reason_codes |-> SortedCodes(MissingCodes(a)),
          summary |-> ZeroSummary]
    ELSE ClassifyCounts(ExtractSummary(a))

(***************************************************************************)
(* Classifier harness: inputs of classify_drift                            *)
(***************************************************************************)
\* a list of n edges (only the length of these lists is read by the classifier)
EdgeList(n) == [i \in 1..n |-> <<1, 2>>]

\* One count of the input: either given explicitly under counts[key] (the list
\* is then empty), or absent from counts and carried by the length of the list.
CountChoices == {<<"explicit", n>> : n \in 0..MaxCount} \cup {<<"list", n>> : n \in 0..MaxCount}

\* the dict {"counts": {...}, list1: [...], list2: [...]} for two count choices
PartDict(k1, l1, c1, k2, l2, c2) ==
  LET counts == (IF c1[1] = "explicit" THEN k1 :> c1[2] ELSE <<>>)
                @@ (IF c2[1] = "explicit" THEN k2 :> c2[2] ELSE <<>>)
  IN  ("counts" :> counts)
      @@ (l1 :> IF c1[1] = "list" THEN EdgeList(c1[2]) ELSE <<>>)
      @@ (l2 :> IF c2[1] = "list" THEN EdgeList(c2[2]) ELSE <<>>)

CompareInputs ==
  {None} \cup {PartDict("divergence", "edges_added", c1, "absence", "edges_removed", c2) :
                  c1 \in CountChoices, c2 \in CountChoices}

RulesInputs ==
  {None} \cup {PartDict("forbidden_added", "forbidden_edges_added", c1,
                        "forbidden_removed", "forbidden_edges_removed", c2)
                 @@ ("error" :> e) :
                  c1 \in CountChoices, c2 \in CountChoices,
                  e \in {None, [code |-> "invalid_edges_added"]}}

CyclesInputs ==
  {None} \cup {PartDict("cycles_added_count", "cycles_added", c1,
                        "cycles_removed_count", "cycles_removed", c2) :
                  c1 \in CountChoices, c2 \in CountChoices}

ClassifierInit ==
  /\ RulesIdle /\ CyclesIdle /\ DriftIdle /\ StoreIdle /\ SnapIdle /\ PathIdle /\ CacheIdle /\ ScanIdle /\ ConfigIdle
  /\ analysis \in [compare : CompareInputs, rules : RulesInputs, cycles : CyclesInputs]
  /\ classified = None

\* result = classify_drift(analysis)
Classify ==
  /\ classified = None
  /\ classified' = classify_drift(analysis)
  /\ UNCHANGED <<analysis, notClassifierVars>>

ClassifierNext == Classify

SpecClassifier == ClassifierInit /\ [][ClassifierNext]_vars

(***************************************************************************)
(* Claims about the classifier                                             *)
(***************************************************************************)
Complete(a) == MissingCodes(a) = <<>>

\* C1 as stated: with compare, rules and cycles present and no rules error,
\* FA > 0 or CA > 0 gives classification "negative" whatever the other counts.
C1_Original ==
  (classified # None /\ Complete(analysis)
     /\ (ExtractSummary(analysis).forbidden_edges_added_count > 0
         \/ ExtractSummary(analysis).cycles_added_count > 0))
  => classified.classification = "negative"

\* C1 amended: the verdict is "negative" when CA > 0, or when FA > 0 and the
\* no_change test (EA = ER = CA = CR = 0) does not apply, whatever FR and CR are.
C1_RiskFirst ==
  LET s == ExtractSummary(analysis)
  IN  (classified # None /\ Complete(analysis)
         /\ (s.cycles_added_count > 0
             \/ (s.forbidden_edges_added_count > 0
                 /\ ~(s.edges_added_count = 0 /\ s.edges_removed_count = 0
                      /\ s.cycles_removed_count = 0))))
      => classified.classification = "negative"

\* the tie-break case: forbidden edges added and removed, verdict negative
C1_Witness ==
  /\ classified # None /\ Complete(analysis)
  /\ ExtractSummary(analysis).forbidden_edges_added_count > 0
  /\ ExtractSummary(analysis).forbidden_edges_removed_count > 0
  /\ classified.classification = "negative"

\* C18: if compare, rules or cycles is absent from the input, or rules
\* carries a non-null error, classify_drift returns classification "unknown",
\* a summary whose six counts are all zero, and a non-empty sorted list of
\* reason codes drawn only from missing_compare, missing_rules, missing_cycles.
C18_MissingDataPath ==
  (classified # None
     /\ (\/ analysis.compare = None \/ analysis.rules = None \/ analysis.cycles = None
         \/ (analysis.rules # None /\ analysis.rules.error # None)))
  => /\ classified.classification = "unknown"
     /\ DOMAIN classified.summary =
          {"edges_added_count", "edges_removed_count", "forbidden_edges_added_count",
           "forbidden_edges_removed_count", "cycles_added_count", "cycles_removed_count"}
     /\ \A k \in DOMAIN classified.summary : classified.summary[k] = 0
     /\ classified.reason_codes # <<>>
     /\ \A i \in 1..Len(classified.reason_codes) :
          classified.reason_codes[i] \in {"missing_compare", "missing_rules", "missing_cycles"}
     /\ \A i \in 1..(Len(classified.reason_codes) - 1) :
          CodeRank(classified.reason_codes[i]) < CodeRank(classified.reason_codes[i + 1])

\* compare and cycles absent, rules with an error and non-zero counts: the
\* three codes come back in sorted order, which is not the order of the tests
C18_Witness ==
  /\ classified # None
  /\ analysis.compare = None /\ analysis.cycles = None
  /\ analysis.rules # None /\ analysis.rules.error # None
  /\ CountOf(analysis.rules, "forbidden_added", "forbidden_edges_added") > 0
  /\ classified.reason_codes = <<"missing_compare", "missing_cycles", "missing_rules">>

(***************************************************************************)
(* Rule checker harness: inputs of check_rules                             *)
(***************************************************************************)
\* the edge universe: a ring over MaxRuleEdges modules (1->2, 2->3, ..., n->1)
RuleEdge(k) == <<k, (k % MaxRuleEdges) + 1>>
RuleEdges == {RuleEdge(k) : k \in 1..MaxRuleEdges}

\* the wall clock read by build_exception_set_and_map
RulesNow == 1

\* lists of edges: a sorted set, the same with its first edge repeated, or the
\* same with an edge whose "from" is empty
EdgeListInputs ==
  {SortEdges(S) : S \in SUBSET RuleEdges}
  \cup {<<MinEdge(S)>> \o SortEdges(S) : S \in (SUBSET RuleEdges) \ {{}}}
  \cup {SortEdges(S) \o <<<<0, 1>>>> : S \in SUBSET RuleEdges}

\* per edge of the universe: no exception, or one that never expires, or one
\* that expires before, at or after the clock, or one whose expires_at is
\* written with a UTC offset other than +00:00 (the string is greater than the
\* string of the clock, the instant it denotes is earlier)
ExpiryChoices == {"absent", "never", "past", "now", "future", "offset"}

ExceptionFor(e, choice) ==
  [from_module |-> e[1], to_module |-> e[2],
   expires_at |-> CASE choice = "never"  -> None
                    [] choice = "past"   -> Some(RulesNow - 1)
                    [] choice = "now"    -> Some(RulesNow)
                    [] choice = "future" -> Some(RulesNow + 1)
                    [] choice = "offset" -> Some(RulesNow + 2)]

RECURSIVE ExceptionList(_, _)
ExceptionList(pick, k) ==
  IF k = 0 THEN <<>>
  ELSE ExceptionList(pick, k - 1)
       \o (IF pick[k] = "absent" THEN <<>> ELSE <<ExceptionFor(RuleEdge(k), pick[k])>>)

\* a record whose from_module is missing
InvalidException == [from_module |-> 0, to_module |-> 1, expires_at |-> None]

ExceptionInputs ==
  {ExceptionList(pick, MaxRuleEdges) : pick \in [1..MaxRuleEdges -> ExpiryChoices]}
  \cup {<<InvalidException>> \o ExceptionList(pick, MaxRuleEdges) :
          pick \in [1..MaxRuleEdges -> ExpiryChoices]}

ConfigInputs ==
  [deny_by_default : BOOLEAN, allowed_edges : {SortEdges(S) : S \in SUBSET RuleEdges}]

RulesInit ==
  /\ ClassifierIdle /\ CyclesIdle /\ DriftIdle /\ StoreIdle /\ SnapIdle /\ PathIdle /\ CacheIdle /\ ScanIdle /\ ConfigIdle
  /\ rulesIn \in [compare_result : {[edges_added |-> a, edges_removed |-> <<>>] :
                                       a \in EdgeListInputs},
                   config : ConfigInputs,
                   active_exceptions : ExceptionInputs,
                   now : {RulesNow}]
  /\ rulesOut = None

\* rulesOut = check_rules(compare_result, config, active_exceptions)
CheckRules ==
  /\ rulesOut = None
  /\ rulesOut' = check_rules(rulesIn.compare_result, rulesIn.config,
                             rulesIn.active_exceptions, rulesIn.now)
  /\ UNCHANGED <<rulesIn, notRulesVars>>

RulesNext == CheckRules

SpecRules == RulesInit /\ [][RulesNext]_vars

(***************************************************************************)
(* Claims about the rule checker                                           *)
(***************************************************************************)
\* the edges for which the list holds an exception that is active at the clock
ActiveExceptionEdges(excs, now) ==
  {e \in RuleEdges \cup {<<0, 1>>} :
     \E i \in 1..Len(excs) :
        /\ excs[i].from_module = e[1] /\ excs[i].to_module = e[2]
        /\ e[1] # 0 /\ e[2] # 0
        /\ (excs[i].expires_at = None \/ excs[i].expires_at.some > now)}

\* a list that is sorted by (from, to) and holds exactly the edges of S
IsSortedListOf(l, S) ==
  /\ Range(l) = S
  /\ \A i \in 1..(Len(l) - 1) : EdgeLess(l[i], l[i + 1])

WellFormedRulesInput ==
  /\ \A i \in 1..Len(rulesIn.compare_result.edges_added) :
        ValidEdge(rulesIn.compare_result.edges_added[i])
  /\ \A i \in 1..Len(rulesIn.compare_result.edges_removed) :
        ValidEdge(rulesIn.compare_result.edges_removed[i])

\* C10: for well-formed input, forbidden_edges_added = (edges_added - allowed)
\* - active exceptions and allowed_via_exception = (edges_added - allowed)
\* intersected with the active exceptions, except that both are empty when
\* deny_by_default is false and allowed_edges is empty.
C10_RuleSets ==
  (rulesOut # None /\ WellFormedRulesInput) =>
    LET added   == Range(rulesIn.compare_result.edges_added)
        allowed == Range(rulesIn.config.allowed_edges)
        active  == ActiveExceptionEdges(rulesIn.active_exceptions, rulesIn.now)
        permissive == ~rulesIn.config.deny_by_default /\ allowed = {}
    IN  /\ rulesOut.error = None
        /\ IsSortedListOf(rulesOut.forbidden_edges_added,
                          IF permissive THEN {} ELSE (added \ allowed) \ active)
        /\ IsSortedListOf(rulesOut.allowed_via_exception,
                          IF permissive THEN {} ELSE (added \ allowed) \cap active)

\* an added edge that is not allowed is covered by an active exception while
\* another one is not, and the checker has answered
C10_Witness ==
  /\ rulesOut # None /\ WellFormedRulesInput
  /\ rulesOut.forbidden_edges_added # <<>>
  /\ rulesOut.allowed_via_exception # <<>>

\* the instant an ISO 8601 string of the harness denotes: RulesNow + 2 is
\* written with a positive UTC offset and denotes the instant RulesNow - 1
\* (as "2026-01-01T03:00:00+04:00" is greater than "2026-01-01T00:00:00+00:00"
\* and an hour earlier); every other string is written in UTC
InstantOf(stamp) == IF stamp = RulesNow + 2 THEN RulesNow - 1 ELSE stamp

\* the exception moved its edge from forbidden_edges_added to
\* allowed_via_exception
Suppressed(exc) ==
  /\ <<exc.from_module, exc.to_module>> \in Range(rulesOut.allowed_via_exception)
  /\ <<exc.from_module, exc.to_module>> \notin Range(rulesOut.forbidden_edges_added)

\* the exceptions of the input whose edge is a forbidden added edge
ExceptionsOfForbiddenEdges ==
  {i \in 1..Len(rulesIn.active_exceptions) :
     <<rulesIn.active_exceptions[i].from_module, rulesIn.active_exceptions[i].to_module>>
       \in ForbiddenAddedSet(rulesIn.config,
                             Range(rulesIn.compare_result.edges_added))}

\* C11: an exception for a forbidden added edge (f, t) moves the edge from
\* forbidden_edges_added to allowed_via_exception if and only if it has no
\* expiry or its expires_at is a later time than the current time.
C11_SuppressedWhileActive ==
  (rulesOut # None /\ WellFormedRulesInput) =>
    \A i \in ExceptionsOfForbiddenEdges :
      LET exc == rulesIn.active_exceptions[i]
      IN  Suppressed(exc) <=> (\/ exc.expires_at = None
                               \/ InstantOf(exc.expires_at.some) > InstantOf(rulesIn.now))

\* what does hold: the edge is moved if and only if the exception has no
\* expiry or its expires_at string is greater than the string of the clock
C11_SuppressedWhileStringGreater ==
  (rulesOut # None /\ WellFormedRulesInput) =>
    \A i \in ExceptionsOfForbiddenEdges :
      LET exc == rulesIn.active_exceptions[i]
      IN  Suppressed(exc) <=> (\/ exc.expires_at = None
                               \/ exc.expires_at.some > rulesIn.now)

(***************************************************************************)
(* Cycle engine harness: inputs of detect_cycles                           *)
(***************************************************************************)
CycleModules == 1..NumCycleModules

\* self-edges are permitted in cycle input
CycleEdgeSets ==
  {S \in SUBSET (CycleModules \X CycleModules) : Cardinality(S) <= MaxCycleEdges}

\* edge lists: any set of at most MaxCycleEdges edges, and short lists that
\* hold an invalid edge
CycleEdgeLists ==
  {SortEdges(S) : S \in CycleEdgeSets}
  \cup {SortEdges(S) \o <<<<0, 1>>>> : S \in {T \in CycleEdgeSets : Cardinality(T) <= 1}}

CyclesInit ==
  /\ ClassifierIdle /\ RulesIdle /\ DriftIdle /\ StoreIdle /\ SnapIdle /\ PathIdle /\ CacheIdle /\ ScanIdle /\ ConfigIdle
  /\ cyclesIn \in [edges : CycleEdgeLists, max_cycles : 0..MaxCyclesArg]
  /\ cyclesOut = None

\* cyclesOut = detect_cycles(edges, max_cycles)
DetectCycles ==
  /\ cyclesOut = None
  /\ cyclesOut' = detect_cycles(cyclesIn.edges, cyclesIn.max_cycles)
  /\ UNCHANGED <<cyclesIn, notCyclesVars>>

CyclesNext == DetectCycles

SpecCycles == CyclesInit /\ [][CyclesNext]_vars

(***************************************************************************)
(* Claims about the cycle engine                                           *)
(***************************************************************************)
\* C3 as stated: for every edge list and every max_cycles, detect_cycles
\* returns at most max_cycles cycles, and truncated implies exactly max_cycles.
C3_Bounded ==
  cyclesOut # None =>
    /\ Len(cyclesOut.cycles) <= cyclesIn.max_cycles
    /\ (cyclesOut.truncated => Len(cyclesOut.cycles) = cyclesIn.max_cycles)

\* the bound holds for every max_cycles of at least 1
C3_BoundedFromOne ==
  (cyclesOut # None /\ cyclesIn.max_cycles >= 1) =>
    /\ Len(cyclesOut.cycles) <= cyclesIn.max_cycles
    /\ (cyclesOut.truncated => Len(cyclesOut.cycles) = cyclesIn.max_cycles)


(***************************************************************************)
(* utils/drift_classifier.py : assess_conformance_readiness                *)
(* The reasons list it returns; is_ready is reasons = <<>>.  Counts held in *)
(* a dict that may lack them are wrapped: Some(n).                         *)
(***************************************************************************)
\* graph_stats.get(key) if graph_stats else None
StatOf(graph_stats, key) ==
  IF graph_stats # None /\ DOMAIN graph_stats # {} THEN Get(graph_stats, key, None)
  ELSE None

\* reasons.append("BASELINE_MISSING") / reasons.append("BASELINE_EMPTY")
BaselineReasons(baseline_summary, baseline_edges_count) ==
  IF baseline_summary = None \/ baseline_edges_count = None
    THEN <<"BASELINE_MISSING">>
  ELSE IF baseline_edges_count.some = 0 THEN <<"BASELINE_EMPTY">>
  ELSE <<>>

\* mutant of assess_conformance_readiness: the ratio is tested with > 0.5
assess_conformance_readiness_StrictRatio(baseline_summary, baseline_edges_count, graph_stats) ==
  LET included == StatOf(graph_stats, "included_files")
      unmapped == StatOf(graph_stats, "unmapped_files")
  IN  BaselineReasons(baseline_summary, baseline_edges_count)
      \o (IF included # None /\ included.some = 0 THEN <<"NO_SOURCE_FILES">>
          ELSE IF included # None /\ included.some # 0 /\ unmapped # None
                  /\ included.some > 0 /\ 2 * unmapped.some > included.some
            THEN <<"MAPPING_TOO_LOW">>
          ELSE <<>>)

\* unmapped / included >= 0.5 is 2 * unmapped >= included on file counts
assess_conformance_readiness(baseline_summary, baseline_edges_count, graph_stats) ==
  LET included == StatOf(graph_stats, "included_files")
      unmapped == StatOf(graph_stats, "unmapped_files")
  IN  BaselineReasons(baseline_summary, baseline_edges_count)
      \o (IF included # None /\ included.some = 0 THEN <<"NO_SOURCE_FILES">>
          ELSE IF included # None /\ included.some # 0 /\ unmapped # None
                  /\ included.some > 0 /\ 2 * unmapped.some >= included.some
            THEN <<"MAPPING_TOO_LOW">>
          ELSE <<>>)

(***************************************************************************)
(* services/drift_engine.py : commits_to_drifts                            *)
(* Of a Drift the model keeps type, driftType, classification, the six     *)
(* counts, reason_codes and classifier_mode_used.                          *)
(***************************************************************************)
\* sorted(set(codes))
RECURSIVE SortedCodeSet(_)
SortedCodeSet(S) ==
  IF S = {} THEN <<>>
  ELSE LET m == CHOOSE c \in S : \A d \in S : CodeRank(c) <= CodeRank(d)
       IN  <<m>> \o SortedCodeSet(S \ {m})

\* not (repo_root_path and config and baseline_data)
PrereqMissing(ctx) ==
  ctx.repo_root_path = None \/ ctx.config = None \/ ctx.baseline_data = None

\* baseline_data.get(key) if baseline_data else None
BaselineField(ctx, key) ==
  IF ctx.baseline_data # None THEN Get(ctx.baseline_data, key, None) ELSE None

\* the branch taken before the readiness guardrail: classification,
\* reason_codes, conformance_summary and graph_stats as they stand at line 746
ConformanceStage(ctx, commit) ==
  LET unready == [classification |-> "unknown", reason_codes |-> <<>>,
                  conformance_summary |-> <<>>, graph_stats |-> <<>>]
      readiness_reasons_initial ==
        assess_conformance_readiness(BaselineField(ctx, "baseline_summary"),
                                     BaselineField(ctx, "baseline_edges_count"), None)
      commit_delta == commit.delta
  IN  IF PrereqMissing(ctx)
        THEN [unready EXCEPT !.reason_codes = <<"BASELINE_MISSING">>]
      ELSE IF readiness_reasons_initial # <<>>
        THEN [unready EXCEPT !.reason_codes = SortedCodeSet(Range(readiness_reasons_initial))]
      ELSE IF commit_delta.raises
        THEN [unready EXCEPT !.reason_codes = <<"compare_failed">>,
                             !.conformance_summary = ZeroSummary]
      ELSE
        LET compare_like ==
              [edges_added   |-> commit_delta.edges_added,
               edges_removed |-> commit_delta.edges_removed,
               counts |-> [divergence          |-> commit_delta.edges_added_count,
                           absence             |-> commit_delta.edges_removed_count,
                           edges_added_count   |-> commit_delta.edges_added_count,
                           edges_removed_count |-> commit_delta.edges_removed_count]]
            rules_result ==
              check_rules(compare_like, ctx.config,
                          Get(ctx.baseline_data, "active_exceptions", <<>>), ctx.now)
            cycles_result ==
              [counts |-> [cycles_added_count |-> 0, cycles_removed_count |-> 0],
               cycles_added |-> <<>>, cycles_removed |-> <<>>]
            classification_result ==
              classify_drift([compare |-> compare_like, rules |-> rules_result,
                              cycles |-> cycles_result])
        IN  [classification |-> classification_result.classification,
             reason_codes   |-> classification_result.reason_codes,
             conformance_summary |->
               [edges_added_count   |-> commit_delta.edges_added_count,
                edges_removed_count |-> commit_delta.edges_removed_count,
                forbidden_edges_added_count   |-> rules_result.counts.forbidden_added,
                forbidden_edges_removed_count |-> rules_result.counts.forbidden_removed,
                cycles_added_count   |-> 0,
                cycles_removed_count |-> 0],
             graph_stats |-> commit_delta.stats]

\* classifier_mode_used after _normalize_classifier_mode_used
NormalizedMode(requested_mode, classification, reason_codes) ==
  IF requested_mode # "conformance" THEN requested_mode
  ELSE IF classification # None \/ reason_codes # <<>> THEN "conformance"
  ELSE "keywords"

\* Drift(...): the conformance fields are kept only if classification is set
Drift(mode, sentiment, category, classification, conformance_summary, reason_codes) ==
  LET count(key) == IF classification # None THEN Get(conformance_summary, key, 0) ELSE 0
      codes == IF classification # None THEN reason_codes ELSE <<>>
  IN  [type |-> sentiment,
       driftType |-> category,
       classification |-> classification,
       edges_added_count   |-> count("edges_added_count"),
       edges_removed_count |-> count("edges_removed_count"),
       forbidden_edges_added_count   |-> count("forbidden_edges_added_count"),
       forbidden_edges_removed_count |-> count("forbidden_edges_removed_count"),
       cycles_added_count   |-> count("cycles_added_count"),
       cycles_removed_count |-> count("cycles_removed_count"),
       reason_codes |-> codes,
       classifier_mode_used |-> NormalizedMode(mode, classification, codes)]

\* the body of the loop over selected_commits
commit_to_drift(ctx, commit) ==
  IF ctx.mode = "conformance" /\ commit.category = "architecture"
    THEN LET stage == ConformanceStage(ctx, commit)
             readiness_reasons ==
               assess_conformance_readiness(BaselineField(ctx, "baseline_summary"),
                                            BaselineField(ctx, "baseline_edges_count"),
                                            stage.graph_stats)
             is_ready == readiness_reasons = <<>>
             classification == IF is_ready THEN stage.classification ELSE "unknown"
             reason_codes ==
               IF is_ready THEN stage.reason_codes
               ELSE SortedCodeSet(Range(stage.reason_codes) \cup Range(readiness_reasons))
             sentiment == IF ~is_ready THEN "unknown"
                          ELSE IF classification = "positive" THEN "positive"
                          ELSE "negative"
         IN  Drift(ctx.mode, sentiment, commit.category, Some(classification),
                   stage.conformance_summary, reason_codes)
    ELSE Drift(ctx.mode, IF commit.positive_keyword THEN "positive" ELSE "negative",
               commit.category, None, <<>>, <<>>)

\* mutant of commits_to_drifts: the loop ends at the first commit whose delta
\* extraction raises
commits_to_drifts_StopAtFailure(ctx, commits, max_drifts) ==
  LET n == IF Len(commits) < max_drifts THEN Len(commits) ELSE max_drifts
      failed == {i \in 1..n : ctx.mode = "conformance"
                               /\ commits[i].category = "architecture"
                               /\ commits[i].delta.raises}
      last == IF failed = {} THEN n
              ELSE (CHOOSE i \in failed : \A j \in failed : i <= j) - 1
  IN  [i \in 1..last |-> commit_to_drift(ctx, commits[i])]

\* selected_commits = commits[:max_drifts], one Drift per selected commit
commits_to_drifts(ctx, commits, max_drifts) ==
  [i \in 1..(IF Len(commits) < max_drifts THEN Len(commits) ELSE max_drifts) |->
     commit_to_drift(ctx, commits[i])]

(***************************************************************************)
(* Drift engine harness: inputs of commits_to_drifts                       *)
(***************************************************************************)
\* config as load_architecture_config returns it, or None when loading failed
DriftConfigs ==
  {None} \cup [deny_by_default : BOOLEAN, allowed_edges : {<<>>, <<RuleEdge(1)>>}]

\* baseline_data as analyze_repo_for_drifts builds it (nothing loaded, or a
\* loaded baseline of n edges), a dict with the summary only, and no dict at all
DriftBaselines ==
  {None,
   [baseline_summary |-> None, baseline_edges_count |-> None, active_exceptions |-> <<>>],
   [baseline_summary |-> [edge_count |-> 1], baseline_edges_count |-> None,
    active_exceptions |-> <<>>]}
  \cup {[baseline_summary |-> [edge_count |-> n], baseline_edges_count |-> Some(n),
         active_exceptions |-> x] :
          n \in 0..MaxCount, x \in {<<>>, <<ExceptionFor(RuleEdge(1), "never")>>}}

\* the stats dict of a commit delta: each of the two counts may be absent
FileCounts == {None} \cup {Some(n) : n \in 0..MaxFiles}

StatsDict(included, unmapped) ==
  (IF included = None THEN <<>> ELSE "included_files" :> included)
  @@ (IF unmapped = None THEN <<>> ELSE "unmapped_files" :> unmapped)

\* what build_commit_delta does for the commit: it raises, or returns a delta
DeltaOf(edges_added, edges_removed, stats) ==
  [raises |-> FALSE, edges_added |-> edges_added, edges_removed |-> edges_removed,
   edges_added_count |-> Len(edges_added), edges_removed_count |-> Len(edges_removed),
   stats |-> stats]

DriftDeltas ==
  {[raises |-> TRUE]}
  \cup {DeltaOf(a, r, StatsDict(i, u)) :
          a \in {<<>>, <<RuleEdge(1)>>, <<RuleEdge(1), RuleEdge(2)>>},
          r \in {<<>>, <<RuleEdge(2)>>},
          i \in FileCounts, u \in FileCounts}

DriftContexts ==
  [mode : {"keywords", "conformance"},
   repo_root_path : {None, Some("repo")},
   config : DriftConfigs,
   baseline_data : DriftBaselines,
   now : {RulesNow}]

\* a commit: what detect_drift_type says of it, whether its message holds a
\* positive keyword, and what build_commit_delta does for it
DriftCommits ==
  [category : {"architecture", "api_contract"},
   positive_keyword : BOOLEAN,
   delta : DriftDeltas]

DriftInit ==
  /\ ClassifierIdle /\ RulesIdle /\ CyclesIdle /\ StoreIdle /\ SnapIdle /\ PathIdle /\ CacheIdle /\ ScanIdle /\ ConfigIdle
  /\ driftIn \in [ctx : DriftContexts, commit : DriftCommits, max_drifts : 0..MaxDrifts]
  /\ driftOut = None

\* driftOut.drifts = commits_to_drifts(repo_url, [commit], max_drifts, ...)
CommitsToDrifts ==
  /\ driftOut = None
  /\ driftOut' = [drifts |-> commits_to_drifts(driftIn.ctx, <<driftIn.commit>>,
                                                driftIn.max_drifts)]
  /\ UNCHANGED <<driftIn, notDriftVars>>

DriftNext == CommitsToDrifts

SpecDrift == DriftInit /\ [][DriftNext]_vars

(***************************************************************************)
(* Claims about the readiness gate                                         *)
(***************************************************************************)
\* the baseline handed to the engine is absent
BaselineAbsent(ctx) ==
  \/ ctx.baseline_data = None
  \/ ctx.baseline_data.baseline_summary = None
  \/ ctx.baseline_data.baseline_edges_count = None

\* the baseline handed to the engine has zero edges
BaselineHasNoEdges(ctx) ==
  /\ ctx.baseline_data # None
  /\ ctx.baseline_data.baseline_edges_count = Some(0)

\* the graph statistics of the commit report included_files == 0
NoIncludedFiles(commit) ==
  /\ ~commit.delta.raises
  /\ Get(commit.delta.stats, "included_files", None) = Some(0)

\* the graph statistics of the commit have unmapped_files / included_files >= 0.5
MappingRatioAtLeastHalf(commit) ==
  /\ ~commit.delta.raises
  /\ \E i \in 1..MaxFiles, u \in 0..MaxFiles :
        /\ Get(commit.delta.stats, "included_files", None) = Some(i)
        /\ Get(commit.delta.stats, "unmapped_files", None) = Some(u)
        /\ 2 * u >= i

\* C2: in conformance mode, for every architecture commit, if the baseline is
\* absent or has zero edges, or the graph statistics of the commit report
\* included_files == 0 or unmapped_files / included_files >= 0.5, the drift
\* record of the commit has classification "unknown".
C2_ReadinessGate ==
  (/\ driftOut # None
   /\ driftIn.ctx.mode = "conformance"
   /\ driftIn.commit.category = "architecture"
   /\ \/ BaselineAbsent(driftIn.ctx)
      \/ BaselineHasNoEdges(driftIn.ctx)
      \/ NoIncludedFiles(driftIn.commit)
      \/ MappingRatioAtLeastHalf(driftIn.commit))
  => \A k \in 1..Len(driftOut.drifts) :
        driftOut.drifts[k].classification = Some("unknown")

\* a commit that adds a forbidden edge against a ready baseline, whose delta
\* reports exactly half of the included files unmapped, is recorded as unknown
C2_Witness ==
  /\ driftOut # None /\ Len(driftOut.drifts) = 1
  /\ driftIn.ctx.mode = "conformance"
  /\ driftIn.commit.category = "architecture"
  /\ ~PrereqMissing(driftIn.ctx)
  /\ ~BaselineAbsent(driftIn.ctx) /\ ~BaselineHasNoEdges(driftIn.ctx)
  /\ ~driftIn.commit.delta.raises
  /\ driftIn.commit.delta.stats = StatsDict(Some(2), Some(1))
  /\ ConformanceStage(driftIn.ctx, driftIn.commit).classification = "negative"
  /\ driftOut.drifts[1].classification = Some("unknown")
  /\ driftOut.drifts[1].reason_codes = <<"MAPPING_TOO_LOW", "forbidden_edges_added">>


(***************************************************************************)
(* Claims about the verdict of a commit                                    *)
(***************************************************************************)
\* conformance mode, an architecture commit, and a baseline that is ready
ConformanceWithReadyBaseline(ctx, commit) ==
  /\ ctx.mode = "conformance"
  /\ commit.category = "architecture"
  /\ ~PrereqMissing(ctx)
  /\ ~BaselineAbsent(ctx) /\ ~BaselineHasNoEdges(ctx)

\* the edges the commit adds close a dependency cycle between modules: these
\* edges are not in the graph before the commit, so the cycle is new
DeltaAddsCycle(commit) ==
  /\ ~commit.delta.raises
  /\ detect_cycles(commit.delta.edges_added, Len(commit.delta.edges_added) + 1).cycles # <<>>

\* C12: in conformance mode with a ready baseline, an architecture commit whose
\* edge delta creates a new dependency cycle between modules and adds no
\* forbidden edge yields a drift record with classification "negative" and
\* reason code "cycles_added".
C12_CycleAddedIsNegative ==
  (/\ driftOut # None
   /\ ConformanceWithReadyBaseline(driftIn.ctx, driftIn.commit)
   /\ DeltaAddsCycle(driftIn.commit)
   /\ assess_conformance_readiness(BaselineField(driftIn.ctx, "baseline_summary"),
                                   BaselineField(driftIn.ctx, "baseline_edges_count"),
                                   driftIn.commit.delta.stats) = <<>>
   /\ \A k \in 1..Len(driftOut.drifts) :
         driftOut.drifts[k].forbidden_edges_added_count = 0)
  => \A k \in 1..Len(driftOut.drifts) :
        /\ driftOut.drifts[k].classification = Some("negative")
        /\ "cycles_added" \in Range(driftOut.drifts[k].reason_codes)

\* what the code does: it never reports a cycle for a commit
C12_NoCycleEverReported ==
  driftOut # None =>
    \A k \in 1..Len(driftOut.drifts) :
       /\ driftOut.drifts[k].cycles_added_count = 0
       /\ "cycles_added" \notin Range(driftOut.drifts[k].reason_codes)

\* C14: a drift record produced in conformance mode whose classification is
\* "unknown" has a type that is neither "positive" nor "negative".
C14_UnknownHasNeutralType ==
  (driftOut # None /\ driftIn.ctx.mode = "conformance") =>
    \A k \in 1..Len(driftOut.drifts) :
       driftOut.drifts[k].classification = Some("unknown")
         => driftOut.drifts[k].type \notin {"positive", "negative"}

\* what does hold: the type is "unknown" when the readiness test fails
C14_UnreadyHasNeutralType ==
  (/\ driftOut # None
   /\ driftIn.ctx.mode = "conformance"
   /\ driftIn.commit.category = "architecture"
   /\ assess_conformance_readiness(
        BaselineField(driftIn.ctx, "baseline_summary"),
        BaselineField(driftIn.ctx, "baseline_edges_count"),
        ConformanceStage(driftIn.ctx, driftIn.commit).graph_stats) # <<>>)
  => \A k \in 1..Len(driftOut.drifts) : driftOut.drifts[k].type = "unknown"

(***************************************************************************)
(* Drift engine harness: lists of commits                                  *)
(***************************************************************************)
\* commits whose delta extraction raises, returns no edge, or returns one
\* added edge with the statistics of a fully mapped file
ListCommits ==
  [category : {"architecture", "api_contract"},
   positive_keyword : {FALSE},
   delta : {[raises |-> TRUE],
            DeltaOf(<<>>, <<>>, StatsDict(None, None)),
            DeltaOf(<<RuleEdge(1)>>, <<>>, StatsDict(Some(1), Some(0)))}]

RECURSIVE CommitLists(_)
CommitLists(n) ==
  IF n = 0 THEN {<<>>}
  ELSE CommitLists(n - 1)
       \cup {Append(l, c) : l \in {x \in CommitLists(n - 1) : Len(x) = n - 1},
                            c \in ListCommits}

DriftListInit ==
  /\ ClassifierIdle /\ RulesIdle /\ CyclesIdle /\ StoreIdle /\ SnapIdle /\ PathIdle /\ CacheIdle /\ ScanIdle /\ ConfigIdle
  /\ driftIn \in [ctx : DriftContexts, commits : CommitLists(MaxCommits),
                  max_drifts : 0..MaxCommits]
  /\ driftOut = None

\* driftOut.drifts = commits_to_drifts(repo_url, commits, max_drifts, ...)
CommitsToDriftsList ==
  /\ driftOut = None
  /\ driftOut' = [drifts |-> commits_to_drifts(driftIn.ctx, driftIn.commits,
                                                driftIn.max_drifts)]
  /\ UNCHANGED <<driftIn, notDriftVars>>

DriftListNext == CommitsToDriftsList

SpecDriftList == DriftListInit /\ [][DriftListNext]_vars

(***************************************************************************)
(* Claims about a failing commit in a list                                 *)
(***************************************************************************)
\* len(commits[:max_drifts])
SelectedCount ==
  IF Len(driftIn.commits) < driftIn.max_drifts THEN Len(driftIn.commits)
  ELSE driftIn.max_drifts

\* C13: if commit delta extraction raises for a commit during a conformance
\* analysis with a ready baseline, the analysis does not abort: every selected
\* commit yields a drift record, and the record of the failing commit has
\* classification "unknown" and reason code "compare_failed".
C13_FailureIsolated ==
  driftOut # None =>
    /\ Len(driftOut.drifts) = SelectedCount
    /\ \A i \in 1..SelectedCount :
         (/\ ConformanceWithReadyBaseline(driftIn.ctx, driftIn.commits[i])
          /\ driftIn.commits[i].delta.raises)
         => /\ i <= Len(driftOut.drifts)
            /\ driftOut.drifts[i].classification = Some("unknown")
            /\ driftOut.drifts[i].reason_codes = <<"compare_failed">>

\* the first commit failed, the second was classified from its delta
C13_Witness ==
  /\ driftOut # None
  /\ Len(driftIn.commits) = 2 /\ Len(driftOut.drifts) = 2
  /\ ConformanceWithReadyBaseline(driftIn.ctx, driftIn.commits[1])
  /\ driftIn.commits[1].delta.raises
  /\ driftOut.drifts[1].reason_codes = <<"compare_failed">>
  /\ driftIn.commits[2].category = "architecture"
  /\ ~driftIn.commits[2].delta.raises
  /\ driftOut.drifts[2].classification \in {Some("negative"), Some("needs_review")}

(***************************************************************************)
(* utils/baseline_store.py                                                 *)
(* A file is None while it does not exist, else the JSON document it       *)
(* holds (json.dumps and json.load are exact on these documents).  A JSON  *)
(* object is a function of its keys.  The values the code tests with       *)
(* isinstance carry their type: JList(l) is a list, JInt(n) an integer,    *)
(* [sha256 |-> x] the 64-character digest of x, ShortStr a string of       *)
(* another length, JOther a value of any other type.  atomic_write_text    *)
(* (temporary file, then os.replace) is one step: the named file goes from *)
(* its old content to its new content.                                     *)
(***************************************************************************)
BadJson == [badjson |-> TRUE]
NotObject == [notobject |-> TRUE]
JList(l) == [list |-> l]
JInt(n) == [int |-> n]
ShortStr == [str |-> "0123abcd"]
JOther == [other |-> TRUE]

NoFiles ==
  [baseline_edges |-> None, baseline_summary |-> None,
   baseline_meta |-> None, baseline_exceptions |-> None]

\* normalize_edges raises ValueError
NormalizeRaises(edges) == \E i \in 1..Len(edges) : ~ValidEdge(edges[i])

\* normalize_edges without the final sort: deduplicated, in order of first appearance
RECURSIVE normalize_edges_KeepOrder(_)
normalize_edges_KeepOrder(edges) ==
  IF edges = <<>> THEN <<>>
  ELSE LET front == SubSeq(edges, 1, Len(edges) - 1)
       IN  IF edges[Len(edges)] \in Range(front) THEN normalize_edges_KeepOrder(front)
           ELSE normalize_edges_KeepOrder(front) \o <<edges[Len(edges)]>>

\* validated, deduplicated, sorted by (from, to)
normalize_edges(edges) == SortEdges(Range(edges))

canonical_edges_bytes(normalized_edges) == [version |-> "1.0", edges |-> normalized_edges]

compute_baseline_hash_sha256(normalized_edges) ==
  [sha256 |-> canonical_edges_bytes(normalized_edges)]

\* edges_payload of store_baseline
EdgesPayload(normalized) == [version |-> "1.0", edges |-> JList(normalized)]

\* summary_payload of store_baseline (of health: the counts copied from graph_stats)
SummaryPayload(normalized, created_at, graph_stats) ==
  [version |-> "1.0", created_at_utc |-> created_at,
   baseline_hash_sha256 |-> compute_baseline_hash_sha256(normalized),
   edge_count |-> JInt(Len(normalized))]
  @@ (IF graph_stats # None /\ DOMAIN graph_stats # {}
        THEN "health" :> [edge_count |-> Len(normalized),
                          included_files |-> Get(graph_stats, "included_files", 0),
                          unmapped_files |-> Get(graph_stats, "unmapped_files", 0),
                          unresolved_imports |-> Get(graph_stats, "unresolved_imports", 0)]
        ELSE <<>>)

\* the directory after store_baseline(baseline_dir, edges, graph_stats) at time now
store_baseline(f, edges, graph_stats, now) ==
  IF NormalizeRaises(edges) THEN f
  ELSE [f EXCEPT !.baseline_edges = EdgesPayload(normalize_edges(edges)),
                 !.baseline_summary = SummaryPayload(normalize_edges(edges), now, graph_stats)]

\* load_baseline: the checks on baseline_edges.json, "none" when they pass
EdgesFileError(edges_data) ==
  IF edges_data = None THEN "missing_edges_file"
  ELSE IF edges_data = BadJson THEN "edges_invalid_json"
  ELSE IF edges_data = NotObject THEN "edges_root_not_object"
  ELSE IF "version" \notin DOMAIN edges_data THEN "edges_missing_version"
  ELSE IF edges_data.version # "1.0" THEN "edges_unsupported_version"
  ELSE IF "edges" \notin DOMAIN edges_data THEN "edges_missing_edges"
  ELSE IF "list" \notin DOMAIN edges_data.edges THEN "edges_not_a_list"
  ELSE "none"

\* load_baseline: the checks on baseline_summary.json, "none" when they pass
SummaryFileError(summary_data) ==
  IF summary_data = None THEN "missing_summary_file"
  ELSE IF summary_data = BadJson THEN "summary_invalid_json"
  ELSE IF summary_data = NotObject THEN "summary_root_not_object"
  ELSE IF "version" \notin DOMAIN summary_data THEN "summary_missing_version"
  ELSE IF summary_data.version # "1.0" THEN "summary_unsupported_version"
  ELSE IF "created_at_utc" \notin DOMAIN summary_data THEN "summary_missing_created_at_utc"
  ELSE IF "baseline_hash_sha256" \notin DOMAIN summary_data THEN "summary_missing_hash"
  ELSE IF "edge_count" \notin DOMAIN summary_data THEN "summary_missing_edge_count"
  ELSE IF "sha256" \notin DOMAIN summary_data.baseline_hash_sha256
          /\ "str" \notin DOMAIN summary_data.baseline_hash_sha256
    THEN "hash_not_a_string"
  ELSE IF "sha256" \notin DOMAIN summary_data.baseline_hash_sha256 THEN "hash_not_64_characters"
  ELSE IF "int" \notin DOMAIN summary_data.edge_count THEN "edge_count_not_an_integer"
  ELSE "none"

\* mutant of IntegrityError: the edge count is not compared
IntegrityError_NoCount(normalized_edges, summary_data) ==
  IF compute_baseline_hash_sha256(normalized_edges) # summary_data.baseline_hash_sha256
    THEN "hash_mismatch"
  ELSE "none"

\* load_baseline: the hash and edge count verification, "none" when it passes
IntegrityError(normalized_edges, summary_data) ==
  IF compute_baseline_hash_sha256(normalized_edges) # summary_data.baseline_hash_sha256
    THEN "hash_mismatch"
  ELSE IF Len(normalized_edges) # summary_data.edge_count.int THEN "edge_count_mismatch"
  ELSE "none"

LoadFailed(code) == [ok |-> FALSE, error |-> code]

\* what load_baseline makes of the two documents it has read
LoadResult(edges_data, summary_data) ==
  IF EdgesFileError(edges_data) # "none" THEN LoadFailed(EdgesFileError(edges_data))
  ELSE IF SummaryFileError(summary_data) # "none"
    THEN LoadFailed(SummaryFileError(summary_data))
  ELSE IF NormalizeRaises(edges_data.edges.list) THEN LoadFailed("invalid_edge")
  ELSE LET normalized_edges == normalize_edges(edges_data.edges.list)
       IN  IF IntegrityError(normalized_edges, summary_data) # "none"
             THEN LoadFailed(IntegrityError(normalized_edges, summary_data))
           ELSE [ok |-> TRUE, edges |-> normalized_edges, summary |-> summary_data]

\* load_baseline with no other thread at work
load_baseline(f) == LoadResult(f.baseline_edges, f.baseline_summary)

\* read_baseline_meta: None when the file is missing or is not JSON
read_baseline_meta(f) ==
  IF f.baseline_meta = None \/ f.baseline_meta = BadJson THEN None ELSE f.baseline_meta

\* mutant of write_baseline_meta: the approval is written into the summary file
write_baseline_meta_IntoSummary(f, now, status, approved_by, approved_at, baseline_hash) ==
  [f EXCEPT !.baseline_summary =
     [version |-> "1.0", status |-> status, updated_at |-> now,
      approved_by |-> approved_by, approved_at |-> approved_at,
      baseline_hash_sha256 |-> baseline_hash]]

\* the directory after write_baseline_meta at time now (no approval note)
write_baseline_meta(f, now, status, approved_by, approved_at, baseline_hash) ==
  [f EXCEPT !.baseline_meta =
     [version |-> "1.0", status |-> status, updated_at |-> now,
      approved_by |-> approved_by, approved_at |-> approved_at,
      baseline_hash_sha256 |-> baseline_hash]]

\* read_baseline_exceptions: [] unless the file holds a JSON list
read_baseline_exceptions(f) ==
  IF f.baseline_exceptions = None THEN <<>>
  ELSE IF "list" \notin DOMAIN f.baseline_exceptions THEN <<>>
  ELSE f.baseline_exceptions.list

\* write_baseline_exceptions rejects the record: a required field is missing,
\* not a string or empty, or expires_at <= created_at (now when not given)
ExceptionRejected(exc, now) ==
  \/ exc.from_module = 0 \/ exc.to_module = 0
  \/ exc.owner = "" \/ exc.reason = ""
  \/ exc.expires_at = None
  \/ exc.expires_at.some <= (IF exc.created_at = None THEN now ELSE exc.created_at.some)

\* write_baseline_exceptions raises ValueError
ExceptionsRaise(exceptions, now) ==
  \E i \in 1..Len(exceptions) : ExceptionRejected(exceptions[i], now)

\* the directory after write_baseline_exceptions at time now
write_baseline_exceptions(f, exceptions, now) ==
  IF ExceptionsRaise(exceptions, now) THEN f
  ELSE [f EXCEPT !.baseline_exceptions =
          JList([i \in 1..Len(exceptions) |->
                   IF exceptions[i].created_at = None
                     THEN [exceptions[i] EXCEPT !.created_at = Some(now)]
                     ELSE exceptions[i]])]

\* get_active_exceptions at time now
get_active_exceptions(f, now) ==
  SelectSeq(read_baseline_exceptions(f),
            LAMBDA exc : exc.expires_at = None \/ exc.expires_at.some > now)

(***************************************************************************)
(* services/baseline_service.py                                            *)
(***************************************************************************)
get_baseline_status(f, now) ==
  IF f.baseline_summary = None \/ f.baseline_summary = BadJson
    THEN [exists |-> FALSE, status |-> "missing", baseline_hash_sha256 |-> None]
  ELSE LET meta_data == read_baseline_meta(f)
           accepted  == meta_data # None /\ Get(meta_data, "status", None) = "accepted"
       IN  [exists |-> TRUE,
            status |-> IF accepted THEN "accepted" ELSE "draft",
            baseline_hash_sha256 |-> Get(f.baseline_summary, "baseline_hash_sha256", None),
            approved_by |-> IF accepted THEN Get(meta_data, "approved_by", None) ELSE None,
            approved_at |-> IF accepted THEN Get(meta_data, "approved_at", None) ELSE None,
            active_exceptions_count |-> Len(get_active_exceptions(f, now))]

\* approve_baseline at time now: the directory it leaves and what it returns;
\* exceptions is None or Some(list)
approve_baseline(f, now, approved_by, exceptions) ==
  LET status_result == get_baseline_status(f, now)
  IN  IF ~status_result.exists
        THEN [files |-> f, ok |-> FALSE, error |-> "baseline_does_not_exist"]
      ELSE IF status_result.baseline_hash_sha256 = None
        THEN [files |-> f, ok |-> FALSE, error |-> "baseline_hash_not_found"]
      ELSE
        LET written == write_baseline_meta(f, now, "accepted", Some(approved_by), Some(now),
                                           status_result.baseline_hash_sha256)
        IN  IF exceptions # None /\ ExceptionsRaise(exceptions.some, now)
              THEN [files |-> written, ok |-> FALSE, error |-> "invalid_exception"]
            ELSE
              LET final == IF exceptions # None
                             THEN write_baseline_exceptions(written, exceptions.some, now)
                             ELSE written
              IN  [files |-> final, ok |-> TRUE,
                   result |-> [status |-> "accepted", approved_by |-> approved_by,
                               approved_at |-> now,
                               baseline_hash_sha256 |-> status_result.baseline_hash_sha256,
                               active_exceptions_count |->
                                 Len(get_active_exceptions(final, now))]]

\* generate_baseline at time now, once the graph is built: store_baseline, then
\* the integrity check by load_baseline
generate_baseline(f, now, edges, graph_stats) ==
  LET stored == store_baseline(f, edges, graph_stats, now)
      loaded == load_baseline(stored)
  IN  IF NormalizeRaises(edges)
        THEN [files |-> stored, ok |-> FALSE, error |-> "invalid_edge"]
      ELSE IF ~loaded.ok THEN [files |-> stored, ok |-> FALSE, error |-> loaded.error]
      ELSE IF loaded.summary.baseline_hash_sha256
                # compute_baseline_hash_sha256(normalize_edges(edges))
        THEN [files |-> stored, ok |-> FALSE, error |-> "integrity_check_failed"]
      ELSE [files |-> stored, ok |-> TRUE,
            result |-> [baseline_hash_sha256 |-> loaded.summary.baseline_hash_sha256,
                        edge_count |-> Len(normalize_edges(edges))]]

(***************************************************************************)
(* Baseline store: inputs                                                  *)
(***************************************************************************)
\* the edge lists of the graphs that are stored: 0, 1, ... MaxRuleEdges edges
StoreEdgeLists == {SortEdges({RuleEdge(k) : k \in 1..n}) : n \in 0..MaxRuleEdges}

\* the health statistics generate_baseline hands to store_baseline
HealthStats == [included_files |-> 1, unmapped_files |-> 0, unresolved_imports |-> 0]

\* the wall clock advances
Tick ==
  /\ clock < MaxClock
  /\ clock' = clock + 1
  /\ UNCHANGED <<files, storeIn, writer, reader, request, lastOp, notStoreVars>>

(***************************************************************************)
(* load_baseline over a directory that anyone may have written             *)
(***************************************************************************)
\* lists found in baseline_edges.json: normalized, unsorted, with a duplicate,
\* with an edge that has an empty endpoint
DiskEdgeLists ==
  StoreEdgeLists
  \cup {Reversed(l) : l \in StoreEdgeLists}
  \cup {l \o l : l \in StoreEdgeLists}
  \cup {l \o <<<<0, 1>>>> : l \in StoreEdgeLists}

OptionalKey(key, values) == {<<>>} \cup {key :> v : v \in values}

DiskEdgesFiles ==
  {None, BadJson, NotObject}
  \cup {v @@ e : v \in OptionalKey("version", {"1.0", "2.0"}),
                 e \in OptionalKey("edges", {JOther} \cup {JList(l) : l \in DiskEdgeLists})}

DiskSummaryFiles ==
  {None, BadJson, NotObject}
  \cup {v @@ c @@ h @@ n :
          v \in OptionalKey("version", {"1.0", "2.0"}),
          c \in OptionalKey("created_at_utc", {0}),
          h \in OptionalKey("baseline_hash_sha256",
                            {JOther, ShortStr}
                            \cup {compute_baseline_hash_sha256(l) : l \in StoreEdgeLists}),
          n \in OptionalKey("edge_count",
                            {JOther} \cup {JInt(k) : k \in 0..MaxRuleEdges})}

LoadInit ==
  /\ ClassifierIdle /\ RulesIdle /\ CyclesIdle /\ DriftIdle /\ SnapIdle /\ PathIdle /\ CacheIdle /\ ScanIdle /\ ConfigIdle
  /\ files \in [baseline_edges : DiskEdgesFiles, baseline_summary : DiskSummaryFiles,
                baseline_meta : {None}, baseline_exceptions : {None}]
  /\ clock = 0 /\ storeIn = None /\ writer = None /\ request = None /\ lastOp = None
  /\ reader = [pc |-> "start"]

\* reader.result = load_baseline(baseline_dir)
LoadBaseline ==
  /\ reader.pc = "start"
  /\ reader' = [pc |-> "done", result |-> load_baseline(files)]
  /\ UNCHANGED <<files, clock, storeIn, writer, request, lastOp, notStoreVars>>

LoadNext == LoadBaseline

SpecLoad == LoadInit /\ [][LoadNext]_vars

(***************************************************************************)
(* Claims about load_baseline                                              *)
(***************************************************************************)
\* baseline_edges.json holds a list of edges that can be normalized
DiskEdgesReadable ==
  /\ EdgesFileError(files.baseline_edges) = "none"
  /\ \A i \in 1..Len(files.baseline_edges.edges.list) :
        ValidEdge(files.baseline_edges.edges.list[i])

\* baseline_summary.json holds a hash and an edge count
DiskSummaryReadable == SummaryFileError(files.baseline_summary) = "none"

\* the hash recomputed from the edges on disk equals the hash in the summary
DiskHashMatches ==
  [sha256 |-> [version |-> "1.0",
               edges |-> SortEdges(Range(files.baseline_edges.edges.list))]]
    = files.baseline_summary.baseline_hash_sha256

\* the number of normalized edges on disk equals the edge_count in the summary
DiskCountMatches ==
  Cardinality(Range(files.baseline_edges.edges.list)) = files.baseline_summary.edge_count.int

\* C4: load_baseline returns a baseline only if the hash recomputed from the
\* edges on disk equals baseline_hash_sha256 of the summary and the number of
\* normalized edges on disk equals edge_count of the summary; on either
\* mismatch it fails and returns nothing.
C4_VerifiedLoad ==
  reader.pc = "done" =>
    /\ reader.result.ok =>
         (DiskEdgesReadable /\ DiskSummaryReadable /\ DiskHashMatches /\ DiskCountMatches)
    /\ (DiskEdgesReadable /\ DiskSummaryReadable /\ ~(DiskHashMatches /\ DiskCountMatches))
         => (~reader.result.ok /\ DOMAIN reader.result = {"ok", "error"})

\* the summary carries the hash of the edges on disk but another edge count,
\* and load_baseline has refused
C4_Witness ==
  /\ reader.pc = "done"
  /\ DiskEdgesReadable /\ DiskSummaryReadable
  /\ DiskHashMatches /\ ~DiskCountMatches
  /\ ~reader.result.ok
  /\ reader.result.error = "edge_count_mismatch"


(***************************************************************************)
(* store_baseline, then load_baseline, each call as a whole                *)
(***************************************************************************)
MaxStoreLen == 3

\* the edges between two modules, self-loops included
StoreEdges == {<<a, b>> : a, b \in 1..2}

\* every list of at most n of these edges, in any order, with repetitions
RECURSIVE EdgeListsUpTo(_)
EdgeListsUpTo(n) ==
  IF n = 0 THEN {<<>>}
  ELSE LET shorter == EdgeListsUpTo(n - 1)
       IN  shorter \cup {<<e>> \o l : e \in StoreEdges, l \in {t \in shorter : Len(t) = n - 1}}

\* the directory before the call: empty, or holding an earlier baseline
RoundTripDirs == {NoFiles, store_baseline(NoFiles, <<<<2, 1>>>>, None, 0)}

RoundTripInit ==
  /\ ClassifierIdle /\ RulesIdle /\ CyclesIdle /\ DriftIdle /\ SnapIdle /\ PathIdle /\ CacheIdle /\ ScanIdle /\ ConfigIdle
  /\ files \in RoundTripDirs
  /\ storeIn \in [edges : EdgeListsUpTo(MaxStoreLen), graph_stats : {None, HealthStats}]
  /\ clock = 1 /\ request = None /\ lastOp = None
  /\ writer = [pc |-> "start"]
  /\ reader = [pc |-> "start"]

\* store_baseline(baseline_dir, edges, graph_stats)
CallStoreBaseline ==
  /\ writer.pc = "start"
  /\ files' = store_baseline(files, storeIn.edges, storeIn.graph_stats, clock)
  /\ writer' = [pc |-> "done"]
  /\ UNCHANGED <<clock, storeIn, reader, request, lastOp, notStoreVars>>

\* reader.result = load_baseline(baseline_dir), called after store_baseline returned
CallLoadBaseline ==
  /\ writer.pc = "done" /\ reader.pc = "start"
  /\ reader' = [pc |-> "done", result |-> load_baseline(files)]
  /\ UNCHANGED <<files, clock, storeIn, writer, request, lastOp, notStoreVars>>

RoundTripNext == CallStoreBaseline \/ CallLoadBaseline

SpecRoundTrip == RoundTripInit /\ [][RoundTripNext]_vars

\* l is sorted by (from, to) and has no edge twice
StrictlySorted(l) == \A i \in 1..(Len(l) - 1) : EdgeLess(l[i], l[i + 1])

\* C17: for every valid edge list E, load_baseline called after
\* store_baseline(E) succeeds and returns exactly the edges of E, each once,
\* sorted by (from, to).
C17_LoadAfterStore ==
  reader.pc = "done" =>
    /\ reader.result.ok
    /\ StrictlySorted(reader.result.edges)
    /\ Range(reader.result.edges) = Range(storeIn.edges)

\* E was unsorted and held an edge twice, the directory held another baseline
C17_Witness ==
  /\ reader.pc = "done"
  /\ Len(storeIn.edges) = 3 /\ Len(reader.result.edges) = 2
  /\ EdgeLess(storeIn.edges[2], storeIn.edges[1])
  /\ reader.result.edges # <<<<2, 1>>>>
  /\ reader.result.summary.created_at_utc = 1
  /\ <<2, 1>> \notin Range(storeIn.edges)

(***************************************************************************)
(* store_baseline and load_baseline, file operation by file operation      *)
(***************************************************************************)
\* store_baseline: normalize, hash, atomic_write_text(baseline_edges.json)
StoreWriteEdges ==
  /\ writer.pc = "write_edges"
  /\ IF NormalizeRaises(writer.edges)
       THEN /\ writer' = [writer EXCEPT !.pc = "raised"]
            /\ UNCHANGED files
       ELSE /\ writer' = [writer EXCEPT !.pc = "write_summary"]
            /\ files' = [files EXCEPT !.baseline_edges =
                                        EdgesPayload(normalize_edges(writer.edges))]
  /\ UNCHANGED <<clock, storeIn, reader, request, lastOp, notStoreVars>>

\* store_baseline: created_at = now, atomic_write_text(baseline_summary.json)
StoreWriteSummary ==
  /\ writer.pc = "write_summary"
  /\ writer' = [writer EXCEPT !.pc = "stored"]
  /\ files' = [files EXCEPT !.baseline_summary =
                              SummaryPayload(normalize_edges(writer.edges), clock,
                                             writer.graph_stats)]
  /\ UNCHANGED <<clock, storeIn, reader, request, lastOp, notStoreVars>>

\* load_baseline: open and parse baseline_edges.json, validate its schema
ReadEdges ==
  /\ reader.pc = "start"
  /\ reader' = IF EdgesFileError(files.baseline_edges) # "none"
                 THEN [pc |-> "done",
                       result |-> LoadFailed(EdgesFileError(files.baseline_edges))]
                 ELSE [pc |-> "edges_read", edges_data |-> files.baseline_edges]
  /\ UNCHANGED <<files, clock, storeIn, writer, request, lastOp, notStoreVars>>

\* load_baseline: open and parse baseline_summary.json, validate, verify
ReadSummary ==
  /\ reader.pc = "edges_read"
  /\ reader' = [pc |-> "done",
                result |-> LoadResult(reader.edges_data, files.baseline_summary)]
  /\ UNCHANGED <<files, clock, storeIn, writer, request, lastOp, notStoreVars>>

\* a valid baseline of storeIn.old is on disk; one writer stores storeIn.new,
\* one reader loads
StoreLoadInit ==
  /\ ClassifierIdle /\ RulesIdle /\ CyclesIdle /\ DriftIdle /\ SnapIdle /\ PathIdle /\ CacheIdle /\ ScanIdle /\ ConfigIdle
  /\ storeIn \in {x \in [old : StoreEdgeLists, new : StoreEdgeLists] : x.old # x.new}
  /\ files = store_baseline(NoFiles, storeIn.old, HealthStats, 0)
  /\ clock = 0
  /\ writer = [pc |-> "write_edges", edges |-> storeIn.new, graph_stats |-> HealthStats]
  /\ reader = [pc |-> "start"]
  /\ request = None /\ lastOp = None

StoreLoadNext == StoreWriteEdges \/ StoreWriteSummary \/ ReadEdges \/ ReadSummary \/ Tick

SpecStoreLoad == StoreLoadInit /\ [][StoreLoadNext]_vars

(***************************************************************************)
(* Claims about a load that runs while a store is in progress              *)
(***************************************************************************)
\* the load returned the complete baseline that was on disk at the start
ReturnedOld ==
  /\ reader.result.ok
  /\ reader.result.edges = normalize_edges(storeIn.old)
  /\ reader.result.summary = SummaryPayload(normalize_edges(storeIn.old), 0, HealthStats)

\* the load returned the complete baseline that the writer stores
ReturnedNew ==
  /\ reader.result.ok
  /\ reader.result.edges = normalize_edges(storeIn.new)
  /\ \E t \in 0..MaxClock :
        reader.result.summary = SummaryPayload(normalize_edges(storeIn.new), t, HealthStats)

\* C5: while a single writer replaces a valid baseline by store_baseline with
\* another edge set, a concurrent load_baseline, at any interleaving of the
\* file operations, returns the complete old baseline or the complete new one;
\* it never fails and never returns a mixture.
C5_OldOrNew == reader.pc = "done" => (ReturnedOld \/ ReturnedNew)

\* what does hold: a load that returns, returns the old or the new baseline
C5_NeverMixed == (reader.pc = "done" /\ reader.result.ok) => (ReturnedOld \/ ReturnedNew)

(***************************************************************************)
(* api/routes.py : generate_baseline_endpoint                              *)
(* The coroutine hands generate_baseline to the thread pool and awaits it  *)
(* under asyncio.wait_for.  A timeout cancels the future: a job still      *)
(* queued is dropped, a job that a pool thread has started runs on.        *)
(***************************************************************************)
\* a pool thread picks the job up
JobStart ==
  /\ writer.pc = "queued"
  /\ writer' = [writer EXCEPT !.pc = "build"]
  /\ UNCHANGED <<files, clock, storeIn, reader, request, lastOp, notStoreVars>>

\* generate_baseline: load_architecture_config and build_dependency_graph return
JobBuild ==
  /\ writer.pc = "build"
  /\ writer' = [writer EXCEPT !.pc = "write_edges"]
  /\ UNCHANGED <<files, clock, storeIn, reader, request, lastOp, notStoreVars>>

\* generate_baseline: load_architecture_config or build_dependency_graph raises
JobBuildRaises ==
  /\ writer.pc = "build"
  /\ writer' = [writer EXCEPT !.pc = "raised"]
  /\ UNCHANGED <<files, clock, storeIn, reader, request, lastOp, notStoreVars>>

\* generate_baseline: the integrity check by load_baseline, then return
JobVerify ==
  /\ writer.pc = "stored"
  /\ writer' = [writer EXCEPT !.pc =
                  IF /\ load_baseline(files).ok
                     /\ load_baseline(files).summary.baseline_hash_sha256
                          = compute_baseline_hash_sha256(normalize_edges(writer.edges))
                    THEN "returned" ELSE "raised"]
  /\ UNCHANGED <<files, clock, storeIn, reader, request, lastOp, notStoreVars>>

\* the awaited future is done: the response is built from get_baseline_status
Respond ==
  /\ request.state = "waiting"
  /\ writer.pc \in {"returned", "raised"}
  /\ request' = IF writer.pc = "returned"
                  THEN [state |-> "responded", status_code |-> 200,
                        baseline_status |-> get_baseline_status(files, clock).status,
                        created_at |-> Get(files.baseline_summary, "created_at_utc", None)]
                  ELSE [state |-> "responded", status_code |-> 400]
  /\ UNCHANGED <<files, clock, storeIn, writer, reader, lastOp, notStoreVars>>

\* the deadline passes first: asyncio.TimeoutError, HTTP 408
Timeout ==
  /\ request.state = "waiting"
  /\ writer.pc \notin {"returned", "raised"}
  /\ request' = [state |-> "timed_out", status_code |-> 408]
  /\ writer' = IF writer.pc = "queued" THEN [writer EXCEPT !.pc = "cancelled"] ELSE writer
  /\ UNCHANGED <<files, clock, storeIn, reader, lastOp, notStoreVars>>

\* the directory is empty or holds the baseline of storeIn.old; a request to
\* generate the baseline of storeIn.new has been submitted to the pool
TimeoutInit ==
  /\ ClassifierIdle /\ RulesIdle /\ CyclesIdle /\ DriftIdle /\ SnapIdle /\ PathIdle /\ CacheIdle /\ ScanIdle /\ ConfigIdle
  /\ storeIn \in [old : {None} \cup {Some(l) : l \in StoreEdgeLists}, new : StoreEdgeLists]
  /\ files = IF storeIn.old = None THEN NoFiles
             ELSE store_baseline(NoFiles, storeIn.old.some, HealthStats, 0)
  /\ clock = 0
  /\ writer = [pc |-> "queued", edges |-> storeIn.new, graph_stats |-> HealthStats]
  /\ request = [state |-> "waiting"]
  /\ reader = None /\ lastOp = None

TimeoutNext ==
  \/ JobStart \/ JobBuild \/ JobBuildRaises \/ StoreWriteEdges \/ StoreWriteSummary
  \/ JobVerify \/ Respond \/ Timeout \/ Tick

SpecTimeout == TimeoutInit /\ [][TimeoutNext]_vars

(***************************************************************************)
(* Claims about the deadline of baseline generation                        *)
(***************************************************************************)
\* C6: once the caller of a baseline generation has received the timeout
\* error, the abandoned work publishes nothing: the files of the baseline
\* directory stay as they were when the timeout was reported.
C6_NothingAfterTimeout == [][request.state = "timed_out" => files' = files]_vars

\* what does hold: a job that was still queued at the deadline never writes
C6_QueuedJobDropped == [][writer.pc = "cancelled" => files' = files]_vars

(***************************************************************************)
(* Baseline service: generate, approve and status called one after another *)
(***************************************************************************)
\* the exceptions argument of approve_baseline
ApprovalException(owner, expires_at) ==
  [from_module |-> RuleEdge(1)[1], to_module |-> RuleEdge(1)[2], owner |-> owner,
   reason |-> "legacy", expires_at |-> expires_at, created_at |-> None]

ExceptionArgs ==
  {None, Some(<<>>),
   Some(<<ApprovalException("team", Some(MaxClock + 1))>>),
   Some(<<ApprovalException("team", Some(0))>>),
   Some(<<ApprovalException("", Some(MaxClock + 1))>>)}

BaselineInit ==
  /\ ClassifierIdle /\ RulesIdle /\ CyclesIdle /\ DriftIdle /\ SnapIdle /\ PathIdle /\ CacheIdle /\ ScanIdle /\ ConfigIdle
  /\ files = NoFiles
  /\ clock = 0
  /\ lastOp = [op |-> "none"]
  /\ storeIn = None /\ writer = None /\ reader = None /\ request = None

\* generate_baseline(repo_root) returns or fails its integrity check
GenerateBaseline ==
  \E edges \in StoreEdgeLists :
    LET r == generate_baseline(files, clock, edges, HealthStats)
    IN  /\ files' = r.files
        /\ lastOp' = [op |-> "generate", ok |-> r.ok]
        /\ UNCHANGED <<clock, storeIn, writer, reader, request, notStoreVars>>

\* generate_baseline(repo_root) raises before it stores: invalid config or repo
GenerateBaselineRaises ==
  /\ lastOp' = [op |-> "generate", ok |-> FALSE]
  /\ UNCHANGED <<files, clock, storeIn, writer, reader, request, notStoreVars>>

\* approve_baseline(repo_root, approved_by, exceptions=...)
ApproveBaseline ==
  \E exceptions \in ExceptionArgs :
    LET r == approve_baseline(files, clock, "lead", exceptions)
    IN  /\ files' = r.files
        /\ lastOp' = [op |-> "approve", ok |-> r.ok]
        /\ UNCHANGED <<clock, storeIn, writer, reader, request, notStoreVars>>

\* get_baseline_status(repo_root)
GetBaselineStatus ==
  /\ lastOp' = [op |-> "status", ok |-> TRUE, result |-> get_baseline_status(files, clock)]
  /\ UNCHANGED <<files, clock, storeIn, writer, reader, request, notStoreVars>>

BaselineNext ==
  \/ GenerateBaseline \/ GenerateBaselineRaises \/ ApproveBaseline \/ GetBaselineStatus
  \/ Tick

SpecBaseline == BaselineInit /\ [][BaselineNext]_vars

(***************************************************************************)
(* Claims about which operation writes which baseline file                 *)
(***************************************************************************)
\* a baseline generation has succeeded: both of its files are on disk
Generated == files.baseline_edges # None /\ files.baseline_summary # None

EdgesAndSummaryKept ==
  /\ files'.baseline_edges = files.baseline_edges
  /\ files'.baseline_summary = files.baseline_summary

\* C7 as stated: after one successful baseline generation no later operation
\* changes baseline_edges.json or baseline_summary.json.
C7_Original == [][Generated => EdgesAndSummaryKept]_vars

\* C7 amended: after a successful baseline generation, baseline_edges.json and
\* baseline_summary.json change only when a later baseline generation rewrites
\* them; every other operation leaves both as they are (approve_baseline writes
\* baseline_meta.json and baseline_exceptions.json only).
C7_OnlyGenerationRewrites ==
  [][(Generated /\ lastOp'.op # "generate") => EdgesAndSummaryKept]_vars

\* a generated baseline has been approved with exceptions: both approval files
\* are written
C7_Witness ==
  /\ Generated
  /\ lastOp.op = "approve" /\ lastOp.ok
  /\ files.baseline_meta # None /\ files.baseline_exceptions # None


(***************************************************************************)
(* api/routes.py : _create_arch_snapshot_worker                            *)
(* One pool thread runs one call.  The thread reads the configuration      *)
(* directory and the baseline, computes the content address, tests whether *)
(* the snapshot exists, reads the clock, writes the two files when the     *)
(* snapshot is new, and reads created_at_utc back from metadata.json.      *)
(***************************************************************************)
\* executor = ThreadPoolExecutor(max_workers=2)
NumWorkers == 2
Workers == 1..NumWorkers

\* hashlib.sha256(data).hexdigest() of the bytes of a file
FileSha256(data) == [sha256 |-> [bytes |-> data]]

\* _hash_file: None if the file is missing
hash_file(content) == IF content = None THEN None ELSE FileSha256(content.some)

\* hashlib.sha256(str(repo_path).encode("utf-8")).hexdigest()[:12]
repo_id(repo_path) == [sha256_12 |-> repo_path]

\* best effort: the hash of the summary load_baseline returns, None if it raises
baseline_hash(baseline_dir) ==
  IF load_baseline(baseline_dir).ok
    THEN Get(load_baseline(baseline_dir).summary, "baseline_hash_sha256", None)
    ELSE None

\* (h or "")
OrEmpty(h) == IF h = None THEN [str |-> ""] ELSE h

\* module_map_sha256 + "|" + (rules_hash or "") + "|" + (baseline_hash or "")
snapshot_input(module_map_sha256, rules_hash, b_hash) ==
  <<module_map_sha256, OrEmpty(rules_hash), OrEmpty(b_hash)>>

\* hashlib.sha256(snapshot_input.encode("utf-8")).hexdigest()[:16]
snapshot_id(module_map_sha256, rules_hash, b_hash) ==
  [sha256_16 |-> snapshot_input(module_map_sha256, rules_hash, b_hash)]

\* the snapshot id the worker computes from what it read
SnapshotIdOf(in) ==
  snapshot_id(FileSha256(in.module_map.some), hash_file(in.allowed_rules),
              baseline_hash(in.baseline))

\* the directory snapshots_root / repo_id / snapshot_id
SnapshotDirOf(in) == <<repo_id(in.repo_path), SnapshotIdOf(in)>>

\* metadata_content
MetadataContent(w) ==
  [snapshot_id |-> SnapshotIdOf(w.input),
   repo_id |-> repo_id(w.input.repo_path),
   repo_path |-> w.input.repo_path,
   config_dir |-> "config",
   module_map_sha256 |-> FileSha256(w.input.module_map.some),
   rules_hash |-> hash_file(w.input.allowed_rules),
   baseline_hash |-> baseline_hash(w.input.baseline),
   snapshot_label |-> w.ann.snapshot_label,
   created_by |-> w.ann.created_by,
   note |-> w.ann.note,
   created_at_utc |-> w.created_at_utc]

\* if is_new:
WritesFiles(w) == w.is_new

\* mutant of saved_created_at_utc: the worker returns the time it read itself
saved_created_at_utc_Own(w, saved_metadata) == w.created_at_utc

\* created_at_utc = saved_metadata["created_at_utc"]
saved_created_at_utc(w, saved_metadata) == saved_metadata.created_at_utc

\* the dict the worker returns
SnapshotResult(w, saved_metadata) ==
  [repo_path |-> w.input.repo_path,
   repo_id |-> repo_id(w.input.repo_path),
   snapshot_id |-> SnapshotIdOf(w.input),
   module_map_sha256 |-> FileSha256(w.input.module_map.some),
   rules_hash |-> hash_file(w.input.allowed_rules),
   baseline_hash |-> baseline_hash(w.input.baseline),
   created_at_utc |-> saved_created_at_utc(w, saved_metadata),
   is_new |-> w.is_new]

(***************************************************************************)
(* Snapshot registry: inputs                                               *)
(***************************************************************************)
\* what a call finds in the repository's configuration directory and baseline
\* directory: module_map.json and allowed_rules.json as bytes, None if missing
SnapshotInputs ==
  {[repo_path |-> "repo", module_map |-> Some(1), allowed_rules |-> None,
    baseline |-> NoFiles],
   [repo_path |-> "repo", module_map |-> Some(1), allowed_rules |-> Some(1),
    baseline |-> NoFiles],
   [repo_path |-> "repo", module_map |-> Some(2), allowed_rules |-> None,
    baseline |-> store_baseline(NoFiles, <<>>, HealthStats, 0)],
   [repo_path |-> "repo", module_map |-> None, allowed_rules |-> None,
    baseline |-> NoFiles]}

\* the calls that overlap on the pool: for one snapshot, and for a directory
\* without module_map.json
PoolInputs == {in \in SnapshotInputs : in.module_map # Some(1) /\ in.allowed_rules = None}

ValidSnapshotInputs == {in \in SnapshotInputs : in.module_map # None}

\* snapshot_label, created_by, note of the request
Annotations ==
  {[snapshot_label |-> None, created_by |-> None, note |-> None],
   [snapshot_label |-> Some("v1"), created_by |-> Some("ann"), note |-> Some("first")]}

\* the inputs the snapshot is addressed by
InputKey(in) ==
  <<in.repo_path, in.module_map, OrEmpty(hash_file(in.allowed_rules)),
    OrEmpty(baseline_hash(in.baseline))>>

SnapshotComplete(dir) ==
  snapFiles[dir].metadata # None /\ snapFiles[dir].module_map # None

(***************************************************************************)
(* Snapshot registry: the steps of a create call                           *)
(***************************************************************************)
\* a pool thread takes the call up: validates the paths, reads
\* module_map.json, hashes, computes snapshot_id, makes the directory.
\* alone: no other call is in progress
StartCreate(w, alone, inputs) ==
  /\ workers[w].pc = "idle"
  /\ alone => \A v \in Workers : workers[v].pc = "idle"
  /\ \E in \in inputs, ann \in Annotations :
       workers' = [workers EXCEPT ![w] =
                     IF in.module_map = None
                       THEN [pc |-> "raised", input |-> in, ann |-> ann]
                       ELSE [pc |-> "check_metadata", input |-> in, ann |-> ann,
                             late |-> SnapshotComplete(SnapshotDirOf(in)),
                             previous |-> snapSeen[InputKey(in)]]]
  /\ UNCHANGED <<snapFiles, snapSeen, notSnapVars>>

\* a call, submitted when no other call is in progress
CreateSnapshot == \E w \in Workers : StartCreate(w, TRUE, SnapshotInputs)

\* a call, submitted while the pool has an idle thread
CreateSnapshotConcurrent == \E w \in Workers : StartCreate(w, FALSE, PoolInputs)

\* metadata_path.exists(): is_new is True at once when it does not
CheckMetadata ==
  \E w \in Workers :
    /\ workers[w].pc = "check_metadata"
    /\ workers' = [workers EXCEPT ![w] =
         IF snapFiles[SnapshotDirOf(workers[w].input)].metadata = None
           THEN [pc |-> "stamp", is_new |-> TRUE] @@ workers[w]
           ELSE [pc |-> "check_module_map"] @@ workers[w]]
    /\ UNCHANGED <<snapFiles, snapSeen, notSnapVars>>

\* snapshot_module_map_path.exists()
CheckModuleMap ==
  \E w \in Workers :
    /\ workers[w].pc = "check_module_map"
    /\ workers' = [workers EXCEPT ![w] =
         [pc |-> "stamp",
          is_new |-> (snapFiles[SnapshotDirOf(workers[w].input)].module_map = None)]
           @@ workers[w]]
    /\ UNCHANGED <<snapFiles, snapSeen, notSnapVars>>

\* created_at_utc = datetime.now(timezone.utc).isoformat(); if is_new:
Stamp ==
  \E w \in Workers :
    /\ workers[w].pc = "stamp"
    /\ workers' = [workers EXCEPT ![w] =
         [pc |-> IF WritesFiles(workers[w]) THEN "write_module_map" ELSE "read_metadata",
          created_at_utc |-> clock] @@ workers[w]]
    /\ UNCHANGED <<snapFiles, snapSeen, notSnapVars>>

\* os.replace(temp_module_map_path, snapshot_module_map_path)
WriteModuleMap ==
  \E w \in Workers :
    /\ workers[w].pc = "write_module_map"
    /\ snapFiles' = [snapFiles EXCEPT ![SnapshotDirOf(workers[w].input)].module_map =
                       Some(workers[w].input.module_map.some)]
    /\ workers' = [workers EXCEPT ![w] = [pc |-> "write_metadata"] @@ workers[w]]
    /\ UNCHANGED <<snapSeen, notSnapVars>>

\* os.replace(temp_metadata_path, metadata_path)
WriteMetadata ==
  \E w \in Workers :
    /\ workers[w].pc = "write_metadata"
    /\ snapFiles' = [snapFiles EXCEPT ![SnapshotDirOf(workers[w].input)].metadata =
                       MetadataContent(workers[w])]
    /\ workers' = [workers EXCEPT ![w] = [pc |-> "read_metadata"] @@ workers[w]]
    /\ UNCHANGED <<snapSeen, notSnapVars>>

\* json.load(metadata.json), in either branch, and the return dict
ReadMetadata ==
  \E w \in Workers :
    /\ workers[w].pc = "read_metadata"
    /\ LET saved_metadata == snapFiles[SnapshotDirOf(workers[w].input)].metadata
       IN  workers' = [workers EXCEPT ![w] =
             IF saved_metadata = None
               THEN [pc |-> "raised"] @@ workers[w]
               ELSE [pc |-> "done",
                     result |-> SnapshotResult(workers[w], saved_metadata)] @@ workers[w]]
    /\ UNCHANGED <<snapFiles, snapSeen, notSnapVars>>

\* the endpoint returns the result to the caller, or HTTP 400 / 500
ReturnSnapshot ==
  \E w \in Workers :
    /\ workers[w].pc \in {"done", "raised"}
    /\ workers' = [workers EXCEPT ![w] = [pc |-> "idle"]]
    /\ snapSeen' = IF workers[w].pc = "done"
                     THEN [snapSeen EXCEPT ![InputKey(workers[w].input)] =
                             Some(workers[w].result)]
                     ELSE snapSeen
    /\ UNCHANGED <<snapFiles, notSnapVars>>

\* no snapshot directory exists, no call is in progress
SnapshotInit ==
  /\ ClassifierIdle /\ RulesIdle /\ CyclesIdle /\ DriftIdle /\ PathIdle /\ CacheIdle /\ ScanIdle /\ ConfigIdle
  /\ files = None /\ storeIn = None /\ writer = None /\ reader = None
  /\ request = None /\ lastOp = None
  /\ clock = 0
  /\ snapFiles = [d \in {SnapshotDirOf(in) : in \in ValidSnapshotInputs} |->
                    [module_map |-> None, metadata |-> None]]
  /\ workers = [w \in Workers |-> [pc |-> "idle"]]
  /\ snapSeen = [k \in {InputKey(in) : in \in ValidSnapshotInputs} |-> None]

SnapshotSteps ==
  \/ CheckMetadata \/ CheckModuleMap \/ Stamp \/ WriteModuleMap \/ WriteMetadata
  \/ ReadMetadata \/ ReturnSnapshot \/ Tick

\* calls one after another
SnapshotNext == CreateSnapshot \/ SnapshotSteps

SpecSnapshot == SnapshotInit /\ [][SnapshotNext]_vars

\* calls that overlap on the two pool threads
SnapshotPoolNext == CreateSnapshotConcurrent \/ SnapshotSteps

SpecSnapshotPool == SnapshotInit /\ [][SnapshotPoolNext]_vars

(***************************************************************************)
(* Claims about the snapshot registry                                      *)
(***************************************************************************)
\* C8: of two successive create calls for the same repository with identical
\* module_map.json bytes, rules hash and baseline hash, the first returns
\* is_new = true, the second is_new = false, and both return the same
\* snapshot_id and the same created_at_utc.
C8_Idempotent ==
  \A w \in Workers :
    workers[w].pc = "done" =>
      IF workers[w].previous = None
        THEN workers[w].result.is_new
        ELSE /\ ~workers[w].result.is_new
             /\ workers[w].result.snapshot_id = workers[w].previous.some.snapshot_id
             /\ workers[w].result.created_at_utc
                  = workers[w].previous.some.created_at_utc

\* a second call with the same inputs has returned, at a later time than the
\* first and with other annotations
C8_Witness ==
  \E w \in Workers :
    /\ workers[w].pc = "done"
    /\ workers[w].previous # None
    /\ workers[w].previous.some.is_new
    /\ workers[w].created_at_utc > workers[w].result.created_at_utc
    /\ workers[w].ann.snapshot_label # None

C9_StartedAfterWritten ==
  [][\A w \in Workers :
       (/\ workers[w].pc \notin {"idle", "raised"}
        /\ workers[w].late
        /\ workers'[w].pc # workers[w].pc) => snapFiles' = snapFiles]_vars


(***************************************************************************)
(* utils/architecture_mapper.py: normalize_repo_path.                      *)
(* A path string is the sequence of its characters; the alphabet has one   *)
(* name character, the two separators and the dot.                         *)
(***************************************************************************)
MaxPathLen == 4

PathChars == {"a", "/", "\\", "."}

\* s.startswith(prefix)
StartsWith(s, prefix) ==
  Len(s) >= Len(prefix) /\ SubSeq(s, 1, Len(prefix)) = prefix

\* path_str.replace("\\", "/")
BackslashesToSlashes(s) == [i \in 1..Len(s) |-> IF s[i] = "\\" THEN "/" ELSE s[i]]

\* "//" in path_str
HasDoubleSlash(s) == \E i \in 1..(Len(s) - 1) : s[i] = "/" /\ s[i + 1] = "/"

\* path_str.replace("//", "/"): one pass from the left over non-overlapping matches
RECURSIVE ReplaceDoubleSlash(_)
ReplaceDoubleSlash(s) ==
  IF Len(s) < 2 THEN s
  ELSE IF s[1] = "/" /\ s[2] = "/" THEN <<"/">> \o ReplaceDoubleSlash(SubSeq(s, 3, Len(s)))
  ELSE <<s[1]>> \o ReplaceDoubleSlash(Tail(s))

\* while "//" in path_str: path_str = path_str.replace("//", "/")
RECURSIVE CollapseSlashes(_)
CollapseSlashes(s) ==
  IF HasDoubleSlash(s) THEN CollapseSlashes(ReplaceDoubleSlash(s)) ELSE s

normalize_repo_path(p) ==
  LET converted == BackslashesToSlashes(p)
      noDot     == IF StartsWith(converted, <<".", "/">>)
                   THEN SubSeq(converted, 3, Len(converted)) ELSE converted
      noSlash   == IF StartsWith(noDot, <<"/">>) THEN Tail(noDot) ELSE noDot
  IN  CollapseSlashes(noSlash)

\* every string of at most n characters
RECURSIVE PathStrings(_)
PathStrings(n) ==
  IF n = 0 THEN {<<>>}
  ELSE LET shorter == PathStrings(n - 1)
       IN  shorter \cup {<<c>> \o s : c \in PathChars, s \in {t \in shorter : Len(t) = n - 1}}

PathInit ==
  /\ pathIn \in {[p |-> s] : s \in PathStrings(MaxPathLen)}
  /\ pathOut = None
  /\ ClassifierIdle /\ RulesIdle /\ CyclesIdle /\ DriftIdle /\ StoreIdle /\ SnapIdle /\ CacheIdle /\ ScanIdle /\ ConfigIdle

NormalizeRepoPath ==
  /\ pathOut = None
  /\ pathOut' = [path |-> normalize_repo_path(pathIn.p)]
  /\ UNCHANGED <<pathIn, notPathVars>>

PathNext == NormalizeRepoPath

SpecPath == PathInit /\ [][PathNext]_vars

\* C15: for every input path string p, normalize_repo_path applied to
\* normalize_repo_path(p) gives normalize_repo_path(p) again.
C15_Idempotent ==
  pathOut # None => normalize_repo_path(pathOut.path) = pathOut.path

\* what the function does guarantee: the result has no backslash and no
\* duplicate slash, and it is a fixed point unless it still begins with a
\* prefix the function strips
C15_FixedPointUnlessLeadingPrefix ==
  pathOut # None =>
    /\ ~HasDoubleSlash(pathOut.path)
    /\ \A i \in 1..Len(pathOut.path) : pathOut.path[i] # "\\"
    /\ (normalize_repo_path(pathOut.path) = pathOut.path
          <=> ~StartsWith(pathOut.path, <<"/">>) /\ ~StartsWith(pathOut.path, <<".", "/">>))

(***************************************************************************)
(* Cycle engine harness: canonicalise_cycle on its own.  A cycle is a list *)
(* of pairwise distinct module names, as the docstring says ("without      *)
(* repeating start") and as detect_cycles cuts it from the DFS path.       *)
(***************************************************************************)
MaxCycleLen == 4

\* every list of pairwise distinct modules out of 1..MaxCycleLen
SimpleCycles ==
  UNION {{c \in [1..n -> 1..MaxCycleLen] : \A i, j \in 1..n : i # j => c[i] # c[j]}
         : n \in 0..MaxCycleLen}

\* the rotations of a list
Rotations(cycle) == {RotateTo(cycle, i) : i \in 1..Len(cycle)}

CanonInit ==
  /\ cyclesIn \in {[cycle |-> c] : c \in SimpleCycles}
  /\ cyclesOut = None
  /\ ClassifierIdle /\ RulesIdle /\ DriftIdle /\ StoreIdle /\ SnapIdle /\ PathIdle /\ CacheIdle /\ ScanIdle /\ ConfigIdle

CanonicaliseCycle ==
  /\ cyclesOut = None
  /\ cyclesOut' = [canonical |-> canonicalise_cycle(cyclesIn.cycle)]
  /\ UNCHANGED <<cyclesIn, notCyclesVars>>

CanonNext == CanonicaliseCycle

SpecCanon == CanonInit /\ [][CanonNext]_vars

\* C16: for every cycle c (a list of pairwise distinct module names),
\* canonicalise_cycle returns the same tuple for c, for every rotation of c
\* and for the reversal of c, and it returns its own output unchanged.
C16_RotationReversalIdempotent ==
  cyclesOut # None =>
    /\ \A r \in Rotations(cyclesIn.cycle) : canonicalise_cycle(r) = cyclesOut.canonical
    /\ canonicalise_cycle(Reversed(cyclesIn.cycle)) = cyclesOut.canonical
    /\ canonicalise_cycle(cyclesOut.canonical) = cyclesOut.canonical

\* a cycle of three or more modules whose canonical form is the rotated reversal
C16_Witness ==
  /\ cyclesOut # None
  /\ Len(cyclesIn.cycle) >= 3
  /\ cyclesOut.canonical \notin Rotations(cyclesIn.cycle)
  /\ cyclesOut.canonical \in Rotations(Reversed(cyclesIn.cycle))

(***************************************************************************)
(* api/routes.py: analyze_repo, and services/drift_store.py.               *)
(* analyses[r] is one POST /analyze-repo request: pc is the position of    *)
(* its coroutine, job the state of analyze_repo_for_drifts in the thread   *)
(* pool, target the list the analysis returns when it runs to its end,     *)
(* acc the drifts it has built so far, fails whether it raises before.     *)
(* The coroutines run on one event loop: the code between two awaits is    *)
(* one step.                                                               *)
(***************************************************************************)
MaxResultLen == 2

AnalysisRequests == {"A", "B"}

\* the drift lists of request r: 0 .. MaxResultLen drifts of its repository
AnalysisResults(r) == {[i \in 1..n |-> r] : n \in 0..MaxResultLen}

\* set_latest_drifts with the new list appended to the old one
set_latest_drifts_Append(latest, drifts) ==
  IF latest = None THEN [drifts |-> drifts] ELSE [drifts |-> latest.drifts \o drifts]

\* _LATEST_DRIFTS after set_latest_drifts(drifts)
set_latest_drifts(latest, drifts) == [drifts |-> drifts]

RunningJobs == {r \in AnalysisRequests : analyses[r].job = "running"}

CacheInit ==
  /\ latestDrifts = None
  /\ analyses = [r \in AnalysisRequests |->
                   [pc |-> "idle", job |-> "none", target |-> <<>>, acc |-> <<>>,
                    fails |-> FALSE]]
  /\ ClassifierIdle /\ RulesIdle /\ CyclesIdle /\ DriftIdle /\ StoreIdle /\ SnapIdle /\ PathIdle /\ ScanIdle /\ ConfigIdle

\* analyze_repo up to the await: the job is submitted to the executor
AnalyzeRepo(r) ==
  /\ analyses[r].pc = "idle"
  /\ \E target \in AnalysisResults(r), fails \in BOOLEAN :
       analyses' = [analyses EXCEPT ![r] =
                      [pc |-> "waiting", job |-> "queued", target |-> target,
                       acc |-> <<>>, fails |-> fails]]
  /\ UNCHANGED <<latestDrifts, notCacheVars>>

\* a pool thread takes the job
AnalysisStart(r) ==
  /\ analyses[r].job = "queued"
  /\ Cardinality(RunningJobs) < NumWorkers
  /\ analyses' = [analyses EXCEPT ![r].job = "running"]
  /\ UNCHANGED <<latestDrifts, notCacheVars>>

\* analyze_repo_for_drifts builds the next drift of its list
AnalysisStep(r) ==
  /\ analyses[r].job = "running"
  /\ Len(analyses[r].acc) < Len(analyses[r].target)
  /\ analyses' = [analyses EXCEPT ![r].acc = @ \o <<analyses[r].target[Len(@) + 1]>>]
  /\ UNCHANGED <<latestDrifts, notCacheVars>>

\* analyze_repo_for_drifts returns its list
AnalysisReturns(r) ==
  /\ analyses[r].job = "running"
  /\ ~analyses[r].fails
  /\ analyses[r].acc = analyses[r].target
  /\ analyses' = [analyses EXCEPT ![r].job = "returned"]
  /\ UNCHANGED <<latestDrifts, notCacheVars>>

\* analyze_repo_for_drifts raises (clone failed, no commits, ...)
AnalysisRaises(r) ==
  /\ analyses[r].job = "running"
  /\ analyses[r].fails
  /\ analyses' = [analyses EXCEPT ![r].job = "raised"]
  /\ UNCHANGED <<latestDrifts, notCacheVars>>

\* the await returns the list: set_latest_drifts(drifts); return drifts
AnalyzeRepoResponds(r) ==
  /\ analyses[r].pc = "waiting"
  /\ analyses[r].job = "returned"
  /\ latestDrifts' = set_latest_drifts(latestDrifts, analyses[r].acc)
  /\ analyses' = [analyses EXCEPT ![r].pc = "responded"]
  /\ UNCHANGED notCacheVars

\* the await raises what the job raised: HTTPException(400)
AnalyzeRepoFails(r) ==
  /\ analyses[r].pc = "waiting"
  /\ analyses[r].job = "raised"
  /\ analyses' = [analyses EXCEPT ![r].pc = "failed"]
  /\ UNCHANGED <<latestDrifts, notCacheVars>>

\* wait_for times out: HTTPException(408).  A job still in the queue is
\* cancelled, a job that a thread runs goes on, a job that has ended but whose
\* result has not reached the event loop is dropped.
AnalyzeRepoTimesOut(r) ==
  /\ analyses[r].pc = "waiting"
  /\ analyses' = [analyses EXCEPT ![r].pc = "timed_out",
                                  ![r].job = IF @ = "queued" THEN "cancelled" ELSE @]
  /\ UNCHANGED <<latestDrifts, notCacheVars>>

CacheNext ==
  \E r \in AnalysisRequests :
    \/ AnalyzeRepo(r) \/ AnalysisStart(r) \/ AnalysisStep(r) \/ AnalysisReturns(r)
    \/ AnalysisRaises(r) \/ AnalyzeRepoResponds(r) \/ AnalyzeRepoFails(r)
    \/ AnalyzeRepoTimesOut(r)

SpecCache == CacheInit /\ [][CacheNext]_vars

\* C19: the latest-drifts cache is replaced only by the complete result list
\* of an analysis that finished successfully; a step in which an analysis
\* fails or times out, and every step of its job, leaves the cache as it was.
C19_PublishOnComplete ==
  [][/\ latestDrifts' # latestDrifts =>
          \E r \in AnalysisRequests :
            /\ analyses[r].pc = "waiting" /\ analyses[r].job = "returned"
            /\ ~analyses[r].fails
            /\ analyses'[r].pc = "responded"
            /\ latestDrifts' = [drifts |-> analyses[r].target]
     /\ \A r \in AnalysisRequests :
          (\/ (analyses'[r].pc # analyses[r].pc /\ analyses'[r].pc \in {"failed", "timed_out"})
           \/ analyses'[r].job # analyses[r].job)
            => latestDrifts' = latestDrifts]_vars

\* one analysis has published its two drifts, the other has timed out with a
\* part of its list built, and the cache holds the list of the first
C19_Witness ==
  \E r, q \in AnalysisRequests :
    /\ analyses[r].pc = "responded" /\ Len(analyses[r].target) = 2
    /\ latestDrifts = [drifts |-> analyses[r].target]
    /\ analyses[q].pc = "timed_out" /\ analyses[q].job = "running"
    /\ analyses[q].acc # <<>> /\ analyses[q].acc # analyses[q].target

(***************************************************************************)
(* utils/dependency_graph.py: build_dependency_graph, and                  *)
(* utils/git_commit_graph.py: build_commit_delta.                          *)
(* A module id is a number; unmapped_module_id is the id of the            *)
(* configuration that map_path_to_module_id returns for a path under no    *)
(* module root.  A source file is a record: read says whether the file     *)
(* could be read ("skipped": too large or unreadable) and parsed           *)
(* ("syntax_error": ast.parse failed), module is what its path maps to,    *)
(* import is the one import it holds: None, Unresolved, or Some(m) for an  *)
(* import that resolves to a file that maps to m.  The path of a file is   *)
(* its index in the list, which is sorted by path; the unmapped files lie  *)
(* in one directory.                                                       *)
(***************************************************************************)
MaxScanFiles == 2
MaxEvidenceArg == 2
MaxChangedFiles == 2

MAX_CYCLES == 200

unmapped_module_id == 3

Unresolved == [unresolved |-> TRUE]

ScanFiles ==
  {[read |-> "skipped", module |-> 1, import |-> None]}
  \cup [read : {"syntax_error"}, module : {1, unmapped_module_id}, import : {Some(2)}]
  \cup [read : {"ok"}, module : {1, 2, unmapped_module_id},
        import : {None, Unresolved, Some(1), Some(2), Some(unmapped_module_id)}]

\* list[:n] for n >= 0
Prefix(list, n) == SubSeq(list, 1, IF n < Len(list) THEN n ELSE Len(list))

\* the number of elements of the list that satisfy Test
CountIf(list, Test(_)) == Cardinality({i \in 1..Len(list) : Test(list[i])})

\* the import of the file has been extracted and resolved to a file of the repository
Resolved(f) == f.read = "ok" /\ f.import # None /\ f.import # Unresolved

\* the edge test without the comparison of the two modules
GraphEdgeEmitted_SelfLoops(f) ==
  /\ Resolved(f)
  /\ f.module # unmapped_module_id
  /\ f.import.some # unmapped_module_id

\* "Add edge only if both modules are mapped and different"
GraphEdgeEmitted(f) ==
  /\ Resolved(f)
  /\ f.module # unmapped_module_id
  /\ f.import.some # unmapped_module_id
  /\ f.module # f.import.some

\* evidence_list before the bound, file by file from fs[k]
RECURSIVE GraphEvidence(_, _)
GraphEvidence(fs, k) ==
  IF k > Len(fs) THEN <<>>
  ELSE (IF GraphEdgeEmitted(fs[k])
          THEN <<[from_file |-> k, from_module |-> fs[k].module,
                  to_module |-> fs[k].import.some]>>
          ELSE <<>>)
       \o GraphEvidence(fs, k + 1)

IsSkipped(f) == f.read = "skipped"
IsIncluded(f) == f.read # "skipped"
IsUnmapped(f) == f.read # "skipped" /\ f.module = unmapped_module_id
IsUnresolved(f) == f.read = "ok" /\ f.import = Unresolved

build_dependency_graph(candidate_files, max_files, max_evidence) ==
  LET files_to_scan == Prefix(candidate_files, max_files)
      unmapped == CountIf(files_to_scan, IsUnmapped)
  IN  [repo_root |-> "repo",
       scanned_files |-> Len(files_to_scan),
       included_files |-> CountIf(files_to_scan, IsIncluded),
       skipped_files |-> CountIf(files_to_scan, IsSkipped),
       unmapped_files |-> unmapped,
       edges |-> SortEdges({<<files_to_scan[i].module, files_to_scan[i].import.some>> :
                              i \in {j \in 1..Len(files_to_scan) :
                                       GraphEdgeEmitted(files_to_scan[j])}}),
       evidence |-> Prefix(GraphEvidence(files_to_scan, 1), max_evidence),
       unresolved_imports |-> CountIf(files_to_scan, IsUnresolved),
       unmapped_buckets |-> IF unmapped = 0 THEN <<>>
                            ELSE <<[bucket |-> "dir", count |-> unmapped]>>]

\* A blob of a changed file, on the commit side or on the parent side: None
\* when the path is absent there or the blob is not text, else the module of
\* its path and the module its one import maps to.
DeltaBlobs ==
  {None} \cup [module : {1, unmapped_module_id},
               import : {Some(1), Some(2), Some(unmapped_module_id)}]

ScanDiffs == [commit : DeltaBlobs, parent : DeltaBlobs]

Side(diffs, side) == [k \in 1..Len(diffs) |-> diffs[k][side]]

\* _edges_from_text adds the edge of the import of this blob
TextEdgeEmitted(blob) ==
  /\ blob # None
  /\ blob.module # unmapped_module_id
  /\ blob.import.some # unmapped_module_id

\* the edges that _edges_from_text finds in the blobs
TextEdges(blobs) ==
  {<<blobs[i].module, blobs[i].import.some>> :
     i \in {j \in 1..Len(blobs) : TextEdgeEmitted(blobs[j])}}

\* the evidence that _edges_from_text collects, blob by blob from blobs[k]
RECURSIVE TextEvidence(_, _)
TextEvidence(blobs, k) ==
  IF k > Len(blobs) THEN <<>>
  ELSE (IF TextEdgeEmitted(blobs[k])
          THEN <<[from_file |-> k, from_module |-> blobs[k].module,
                  to_module |-> blobs[k].import.some]>>
          ELSE <<>>)
       \o TextEvidence(blobs, k + 1)

\* _evidence_for: the evidence of the pool whose edge is in edges
EvidenceFor(edges, pool, direction) ==
  LET kept == {i \in 1..Len(pool) : <<pool[i].from_module, pool[i].to_module>> \in edges}
      RECURSIVE Pick(_)
      Pick(i) ==
        IF i > Len(pool) THEN <<>>
        ELSE (IF i \in kept
                THEN <<[src_file |-> pool[i].from_file, from_module |-> pool[i].from_module,
                        to_module |-> pool[i].to_module, direction |-> direction]>>
                ELSE <<>>) \o Pick(i + 1)
  IN  Pick(1)

\* evidence.sort(key = (src_file, from_module, to_module, direction, import_text))
RECURSIVE MergeEvidence(_, _)
MergeEvidence(a, b) ==
  IF a = <<>> THEN b
  ELSE IF b = <<>> THEN a
  ELSE IF Head(a).src_file <= Head(b).src_file
    THEN <<Head(a)>> \o MergeEvidence(Tail(a), b)
  ELSE <<Head(b)>> \o MergeEvidence(a, Tail(b))

build_commit_delta(all_diffs, max_changed_files) ==
  LET diffs == Prefix(all_diffs, max_changed_files)
      edges_commit == TextEdges(Side(diffs, "commit"))
      edges_parent == TextEdges(Side(diffs, "parent"))
  IN  [commit |-> "commit", parent |-> "parent",
       edges_added |-> SortEdges(edges_commit \ edges_parent),
       edges_removed |-> SortEdges(edges_parent \ edges_commit),
       edges_added_count |-> Cardinality(edges_commit \ edges_parent),
       edges_removed_count |-> Cardinality(edges_parent \ edges_commit),
       evidence |-> MergeEvidence(
          EvidenceFor(edges_commit \ edges_parent,
                      TextEvidence(Side(diffs, "commit"), 1), "added"),
          EvidenceFor(edges_parent \ edges_commit,
                      TextEvidence(Side(diffs, "parent"), 1), "removed")),
       truncated |-> Len(all_diffs) > max_changed_files,
       stats |-> [changed_files_considered |-> Len(diffs),
                  files_skipped_binary |-> 0, files_skipped_too_large |-> 0]]

\* every list of at most n elements of S
RECURSIVE ListsUpTo(_, _)
ListsUpTo(S, n) ==
  IF n = 0 THEN {<<>>}
  ELSE LET shorter == ListsUpTo(S, n - 1)
       IN  shorter \cup {<<x>> \o l : x \in S, l \in {t \in shorter : Len(t) = n - 1}}

ScanInit ==
  /\ scanIn \in
       {[op |-> "build_dependency_graph", files |-> f, max_files |-> n, max_evidence |-> e] :
          f \in ListsUpTo(ScanFiles, MaxScanFiles), n \in 0..MaxScanFiles,
          e \in 0..MaxEvidenceArg}
  /\ scanOut = None
  /\ ClassifierIdle /\ RulesIdle /\ CyclesIdle /\ DriftIdle /\ StoreIdle /\ SnapIdle /\ ConfigIdle
  /\ PathIdle /\ CacheIdle /\ ConfigIdle

BuildDependencyGraph ==
  /\ scanOut = None
  /\ scanIn.op = "build_dependency_graph"
  /\ scanOut' = build_dependency_graph(scanIn.files, scanIn.max_files, scanIn.max_evidence)
  /\ UNCHANGED <<scanIn, notScanVars>>

ScanNext == BuildDependencyGraph

SpecScan == ScanInit /\ [][ScanNext]_vars

DeltaInit ==
  /\ scanIn \in
       {[op |-> "build_commit_delta", diffs |-> d, max_changed_files |-> n] :
          d \in ListsUpTo(ScanDiffs, MaxChangedFiles), n \in 0..MaxChangedFiles}
  /\ scanOut = None
  /\ ClassifierIdle /\ RulesIdle /\ CyclesIdle /\ DriftIdle /\ StoreIdle /\ SnapIdle /\ ConfigIdle
  /\ PathIdle /\ CacheIdle /\ ConfigIdle

BuildCommitDelta ==
  /\ scanOut = None
  /\ scanIn.op = "build_commit_delta"
  /\ scanOut' = build_commit_delta(scanIn.diffs, scanIn.max_changed_files)
  /\ UNCHANGED <<scanIn, notScanVars>>

DeltaNext == BuildCommitDelta

SpecDelta == DeltaInit /\ [][DeltaNext]_vars

\* the limit of the call has cut the traversal short: files beyond max_files or
\* max_changed_files were left out, or evidence beyond max_evidence was dropped
ScanCutShort ==
  IF scanIn.op = "build_dependency_graph"
    THEN \/ Len(scanIn.files) > scanIn.max_files
         \/ Len(GraphEvidence(Prefix(scanIn.files, scanIn.max_files), 1)) > scanIn.max_evidence
    ELSE Len(scanIn.diffs) > scanIn.max_changed_files

\* C20: whenever one of the declared limits (max_files, max_evidence,
\* max_changed_files, max_cycles) cuts a traversal short, the result of that
\* operation carries a truncation flag that is set to true.
C20_TruncationFlagged ==
  (scanOut # None /\ ScanCutShort) =>
    ("truncated" \in DOMAIN scanOut /\ scanOut.truncated = TRUE)

\* what holds of build_commit_delta: the flag is true exactly when
\* max_changed_files has cut the list of changed files
C20_DeltaFlagged ==
  (scanOut # None /\ scanIn.op = "build_commit_delta") =>
    (scanOut.truncated <=> ScanCutShort)

\* what holds of detect_cycles: when max_cycles has kept it from returning the
\* cycles it returns without a limit, the flag is true
C20_CyclesFlagged ==
  (cyclesOut # None
     /\ cyclesOut.cycles # detect_cycles(cyclesIn.edges, MAX_CYCLES).cycles)
  => cyclesOut.truncated = TRUE

(***************************************************************************)
(* Claims about the dependency graph builder and the commit delta          *)
(***************************************************************************)
\* the files build_dependency_graph has scanned
Scanned == Prefix(scanIn.files, scanIn.max_files)

HasSyntaxError(f) == f.read = "syntax_error"
NotParsed(f) == f.read # "ok"

\* the edges of the imports of every scanned file that was read and parsed
EdgesOfParsedFiles ==
  {<<Scanned[i].module, Scanned[i].import.some>> :
     i \in {j \in 1..Len(Scanned) :
              /\ Resolved(Scanned[j])
              /\ Scanned[j].module # unmapped_module_id
              /\ Scanned[j].import.some # unmapped_module_id
              /\ Scanned[j].module # Scanned[j].import.some}}

\* C21: when a source file fails to parse during graph build,
\* build_dependency_graph still processes every remaining file and counts the
\* failing file in skipped_files.
C21_ParseFailureSkipped ==
  (scanOut # None /\ CountIf(Scanned, HasSyntaxError) > 0) =>
    /\ Range(scanOut.edges) = EdgesOfParsedFiles
    /\ scanOut.skipped_files = CountIf(Scanned, NotParsed)

\* what holds: the files after the failing file are processed, and the failing
\* file is counted in included_files and not in skipped_files
C21_ParseFailureIncluded ==
  (scanOut # None /\ CountIf(Scanned, HasSyntaxError) > 0) =>
    /\ Range(scanOut.edges) = EdgesOfParsedFiles
    /\ scanOut.skipped_files = CountIf(Scanned, IsSkipped)
    /\ scanOut.included_files = CountIf(Scanned, IsIncluded)
    /\ scanOut.included_files >= CountIf(Scanned, HasSyntaxError)

\* C22: every edge in the output of build_dependency_graph has two different
\* endpoints, neither of which is the unmapped module id.
C22_EdgesMappedDistinct ==
  scanOut # None =>
    \A i \in 1..Len(scanOut.edges) :
      /\ scanOut.edges[i][1] # scanOut.edges[i][2]
      /\ scanOut.edges[i][1] # unmapped_module_id
      /\ scanOut.edges[i][2] # unmapped_module_id

\* a scanned file imports a file of its own module, another one a file of
\* another module, and only the edge of the second is in the output
C22_Witness ==
  /\ scanOut # None
  /\ \E i, j \in 1..Len(Scanned) :
       /\ Resolved(Scanned[i]) /\ Scanned[i].module = 1 /\ Scanned[i].import = Some(1)
       /\ Resolved(Scanned[j]) /\ Scanned[j].module = 1 /\ Scanned[j].import = Some(2)
  /\ scanOut.edges = <<<<1, 2>>>>

\* C30: every edge in edges_added and edges_removed of a commit delta has two
\* different endpoints, neither of which is the unmapped module id.
C30_DeltaEdgesMappedDistinct ==
  scanOut # None =>
    \A e \in Range(scanOut.edges_added) \cup Range(scanOut.edges_removed) :
      /\ e[1] # e[2]
      /\ e[1] # unmapped_module_id
      /\ e[2] # unmapped_module_id

\* what holds: no endpoint of a delta edge is the unmapped module id
C30_DeltaEdgesMapped ==
  scanOut # None =>
    \A e \in Range(scanOut.edges_added) \cup Range(scanOut.edges_removed) :
      e[1] # unmapped_module_id /\ e[2] # unmapped_module_id

(***************************************************************************)
(* The architecture configuration loader (utils/architecture_config.py).   *)
(* A configuration file is missing (None), is not JSON, holds a JSON value *)
(* that is not an object, or holds an object: its "version" key is absent  *)
(* (None) or holds a number or a string, and "rest_valid" tells whether    *)
(* its other keys pass the checks that follow the version check.           *)
(***************************************************************************)
InvalidJson == [invalid_json |-> TRUE]
NotAnObject == [not_an_object |-> TRUE]

ConfigVersions == {None, [number |-> 1], [str |-> "1.0"], [str |-> "2.0"]}

ConfigDocuments ==
  {None, InvalidJson, NotAnObject} \cup [version : ConfigVersions, rest_valid : BOOLEAN]

\* _load_json_file raises ValueError: the file is missing or is not JSON
LoadJsonFileRaises(document) == document = None \/ document = InvalidJson

\* the version check the three validators share: the key is there and holds
\* a string
VersionRejected(data) ==
  \/ data.version = None
  \/ "str" \notin DOMAIN data.version

\* _validate_module_map, _validate_allowed_rules, _validate_exceptions raise
\* ValueError
ValidateRaises(data) ==
  \/ data = NotAnObject
  \/ VersionRejected(data)
  \/ ~data.rest_valid

\* the first file the loader raises for, or None
FirstRejected(config) ==
  IF LoadJsonFileRaises(config.module_map) \/ ValidateRaises(config.module_map)
    THEN Some("module_map.json")
  ELSE IF LoadJsonFileRaises(config.allowed_rules) \/ ValidateRaises(config.allowed_rules)
    THEN Some("allowed_rules.json")
  ELSE IF LoadJsonFileRaises(config.exceptions) \/ ValidateRaises(config.exceptions)
    THEN Some("exceptions.json")
  ELSE None

\* load_architecture_config: ValueError, or the configuration, whose version
\* is the one of module_map.json
load_architecture_config(config) ==
  IF FirstRejected(config) # None
    THEN [raises |-> "ValueError", file |-> FirstRejected(config).some]
  ELSE IF ~config.ids_known
    THEN [raises |-> "ValueError", file |-> "cross-validation"]
  ELSE [raises |-> "", version |-> config.module_map.version.str]

ConfigInit ==
  /\ configIn \in [module_map : ConfigDocuments, allowed_rules : ConfigDocuments,
                   exceptions : ConfigDocuments, ids_known : BOOLEAN]
  /\ configOut = None
  /\ ClassifierIdle /\ RulesIdle /\ CyclesIdle /\ DriftIdle /\ StoreIdle /\ SnapIdle
  /\ PathIdle /\ CacheIdle /\ ScanIdle

LoadArchitectureConfig ==
  /\ configOut = None
  /\ configOut' = load_architecture_config(configIn)
  /\ UNCHANGED <<configIn, notConfigVars>>

ConfigNext == LoadArchitectureConfig

SpecConfig == ConfigInit /\ [][ConfigNext]_vars

\* the files of the configuration whose version is not the string "1.0"
VersionNotOneZero(document) ==
  /\ "version" \in DOMAIN document
  /\ document.version # [str |-> "1.0"]

\* C23: load_architecture_config rejects any configuration file whose
\* version field is not the string "1.0".
C23_VersionChecked ==
  configOut # None =>
    ((\E f \in {"module_map", "allowed_rules", "exceptions"} :
        VersionNotOneZero(configIn[f]))
       => configOut.raises = "ValueError")

\* C23, what the code does: a file whose version is absent or is not a
\* string is rejected; any string passes.
C23_VersionIsAString ==
  configOut # None =>
    ((\E f \in {"module_map", "allowed_rules", "exceptions"} :
        "version" \in DOMAIN configIn[f] /\ VersionRejected(configIn[f]))
       => configOut.raises = "ValueError")

\* a configuration of version "2.0" was loaded
C23_LoadedOtherVersion ==
  /\ configOut # None
  /\ configOut.raises = ""
  /\ configOut.version = "2.0"

(***************************************************************************)
(* Claims about the approval of a baseline                                 *)
(***************************************************************************)
\* baseline_hash_sha256 of the baseline that is on disk
HashOnDisk == compute_baseline_hash_sha256(normalize_edges(files.baseline_edges.edges.list))

\* get_baseline_status has just reported "accepted"
ReportedAccepted == lastOp.op = "status" /\ lastOp.result.status = "accepted"

\* C24: in any sequence of generate and approve operations, whenever
\* get_baseline_status reports "accepted", the hash recorded at approval in
\* baseline_meta.json equals baseline_hash_sha256 of the baseline that is on
\* disk.
C24_AcceptedHashCurrent ==
  ReportedAccepted => files.baseline_meta.baseline_hash_sha256 = HashOnDisk

\* C24, what does hold: approve_baseline records the hash of the baseline
\* that is on disk when it is called
C24_HashCurrentAtApproval ==
  (lastOp.op = "approve" /\ lastOp.ok)
    => files.baseline_meta.baseline_hash_sha256 = HashOnDisk

\* the status is "accepted" and the recorded hash is of an earlier baseline
C24_StaleApproval ==
  /\ ReportedAccepted
  /\ files.baseline_meta.baseline_hash_sha256 # HashOnDisk

\* approve_baseline has just failed on a baseline that exists: one of the
\* exception records it was given is invalid
ApprovalRejected ==
  /\ Generated
  /\ lastOp'.op = "approve" /\ ~lastOp'.ok
  /\ lastOp' # lastOp \/ files' # files

\* C25: if approve_baseline fails because a supplied exception record is
\* invalid, baseline_meta.json and baseline_exceptions.json are exactly as
\* they were before the call.
C25_FailedApprovalWritesNothing ==
  [][ApprovalRejected => /\ files'.baseline_meta = files.baseline_meta
                         /\ files'.baseline_exceptions = files.baseline_exceptions]_vars

\* C25, what does hold: a failed approval leaves baseline_exceptions.json as
\* it was
C25_FailedApprovalKeepsExceptions ==
  [][ApprovalRejected => files'.baseline_exceptions = files.baseline_exceptions]_vars

(***************************************************************************)
(* Claims about the cycles detect_cycles returns                           *)
(***************************************************************************)
\* the list of modules is a directed cycle of the graph: each consecutive
\* pair, and the pair (last, first), is an edge
IsDirectedCycle(cycle, edge_set) ==
  \A i \in 1..Len(cycle) : <<cycle[i], cycle[(i % Len(cycle)) + 1]>> \in edge_set

\* C27: every cycle returned by detect_cycles is a directed cycle of the
\* input graph: each consecutive pair of modules in the returned list, and the
\* pair (last, first), is an edge of the input.
C27_CyclesAreDirected ==
  cyclesOut # None =>
    \A i \in 1..Len(cyclesOut.cycles) :
      IsDirectedCycle(cyclesOut.cycles[i], Range(cyclesIn.edges))

\* C27, what does hold: every returned cycle is a directed cycle of the input
\* read in one of the two directions
C27_DirectedOneWayRound ==
  cyclesOut # None =>
    \A i \in 1..Len(cyclesOut.cycles) :
      \/ IsDirectedCycle(cyclesOut.cycles[i], Range(cyclesIn.edges))
      \/ IsDirectedCycle(Reversed(cyclesOut.cycles[i]), Range(cyclesIn.edges))

\* the modules the edges lead to from the modules of S
Successors(edge_set, S) == {e[2] : e \in {f \in edge_set : f[1] \in S}}

\* the modules reached from the modules of S, those of S included
RECURSIVE ReachedFrom(_, _)
ReachedFrom(edge_set, S) ==
  IF Successors(edge_set, S) \subseteq S THEN S
  ELSE ReachedFrom(edge_set, S \cup Successors(edge_set, S))

\* the directed graph of the edges contains a directed cycle: some module is
\* reached from itself along one edge or more
HasDirectedCycle(edge_set) ==
  \E e \in edge_set : e[1] \in ReachedFrom(edge_set, Successors(edge_set, {e[1]}))

\* C28: for every valid edge list and max_cycles of at least 1, detect_cycles
\* returns at least one cycle if and only if the directed graph formed by the
\* edges contains a directed cycle.
C28_CycleFoundIffCyclic ==
  (cyclesOut # None /\ ~EdgeInputRaises(cyclesIn.edges) /\ cyclesIn.max_cycles >= 1) =>
    (Len(cyclesOut.cycles) >= 1 <=> HasDirectedCycle(Range(cyclesIn.edges)))

\* the only cycle of the graph is not reached from the first start node, and
\* it is found
C28_Witness ==
  /\ cyclesOut # None
  /\ cyclesIn.max_cycles >= 1
  /\ cyclesIn.edges = <<<<1, 2>>, <<2, 3>>, <<3, 2>>>>
  /\ cyclesOut.cycles = <<<<2, 3>>>>

(***************************************************************************)
(* utils/cycle_detector.py : diff_cycles, over two edge lists one of which *)
(* holds the other                                                         *)
(***************************************************************************)
MaxChangedEdges == 1

diff_cycles(old_edges, new_edges, max_cycles) ==
  LET old_result == detect_cycles(old_edges, max_cycles)
      new_result == detect_cycles(new_edges, max_cycles)
      old_cycles_set == {canonicalise_cycle(c) : c \in Range(old_result.cycles)}
      new_cycles_set == {canonicalise_cycle(c) : c \in Range(new_result.cycles)}
      cycles_added   == SortTuples(new_cycles_set \ old_cycles_set)
      cycles_removed == SortTuples(old_cycles_set \ new_cycles_set)
  IN  [old_cycles |-> old_result.cycles, new_cycles |-> new_result.cycles,
       cycles_added |-> cycles_added, cycles_removed |-> cycles_removed,
       counts |-> [old_cycles_count |-> Len(old_result.cycles),
                   new_cycles_count |-> Len(new_result.cycles),
                   cycles_added_count |-> Len(cycles_added),
                   cycles_removed_count |-> Len(cycles_removed)]]

\* what is left of the graph once at most MaxChangedEdges edges are taken away
Shrunk(S) == {S \ D : D \in {T \in SUBSET S : Cardinality(T) <= MaxChangedEdges}}

\* a graph and a shrunk one, as the old and the new edge list in either order
DiffInit ==
  /\ ClassifierIdle /\ RulesIdle /\ DriftIdle /\ StoreIdle /\ SnapIdle /\ PathIdle
  /\ CacheIdle /\ ScanIdle /\ ConfigIdle
  /\ \E S \in CycleEdgeSets, max_cycles \in {MaxCyclesArg, MAX_CYCLES} :
       \E R \in Shrunk(S) :
         \/ cyclesIn = [old_edges |-> SortEdges(R), new_edges |-> SortEdges(S),
                        max_cycles |-> max_cycles]
         \/ cyclesIn = [old_edges |-> SortEdges(S), new_edges |-> SortEdges(R),
                        max_cycles |-> max_cycles]
  /\ cyclesOut = None

\* cyclesOut = diff_cycles(old_edges, new_edges, max_cycles)
DiffCycles ==
  /\ cyclesOut = None
  /\ cyclesOut' = diff_cycles(cyclesIn.old_edges, cyclesIn.new_edges, cyclesIn.max_cycles)
  /\ UNCHANGED <<cyclesIn, notCyclesVars>>

DiffNext == DiffCycles

SpecDiff == DiffInit /\ [][DiffNext]_vars

(***************************************************************************)
(* Claims about the cycles of a graph that grows or shrinks                *)
(***************************************************************************)
\* neither of the two detections of diff_cycles was cut short
NeitherTruncated ==
  /\ ~detect_cycles(cyclesIn.old_edges, cyclesIn.max_cycles).truncated
  /\ ~detect_cycles(cyclesIn.new_edges, cyclesIn.max_cycles).truncated

OnlyAdded == Range(cyclesIn.old_edges) \subseteq Range(cyclesIn.new_edges)
OnlyRemoved == Range(cyclesIn.new_edges) \subseteq Range(cyclesIn.old_edges)

\* C26: for edge sets E1 within E2, neither detection truncated, every cycle
\* detect_cycles returns for E1 is returned for E2 as well; hence diff_cycles
\* reports no added cycle when edges were only removed and no removed cycle
\* when edges were only added.
C26_Monotone ==
  (cyclesOut # None /\ NeitherTruncated) =>
    /\ OnlyAdded => /\ Range(cyclesOut.old_cycles) \subseteq Range(cyclesOut.new_cycles)
                    /\ cyclesOut.cycles_removed = <<>>
    /\ OnlyRemoved => /\ Range(cyclesOut.new_cycles) \subseteq Range(cyclesOut.old_cycles)
                      /\ cyclesOut.cycles_added = <<>>

\* C26, what does hold: when the larger graph has no cycle the smaller one has
\* none, so a graph that is acyclic after edges were removed shows no added
\* cycle and one that was acyclic before edges were added shows no removed one
C26_AcyclicMonotone ==
  cyclesOut # None =>
    /\ (OnlyAdded /\ cyclesOut.new_cycles = <<>>) => cyclesOut.old_cycles = <<>>
    /\ (OnlyRemoved /\ cyclesOut.old_cycles = <<>>) => cyclesOut.new_cycles = <<>>

(***************************************************************************)
(* Claims about create calls that overlap on the worker pool               *)
(***************************************************************************)
\* the two pool threads have both finished the first two calls for one and
\* the same snapshot
BothDone(v, w) ==
  /\ v # w
  /\ workers[v].pc = "done" /\ workers[w].pc = "done"
  /\ InputKey(workers[v].input) = InputKey(workers[w].input)
  /\ workers[v].previous = None /\ workers[w].previous = None

\* C29: when two create-snapshot requests with identical inputs run
\* concurrently on the worker pool, exactly one of them reports is_new = true
\* and both report the same created_at_utc, which is the value finally stored
\* in the snapshot's metadata.json.
C29_OneCreatesBothAgree ==
  \A v, w \in Workers :
    BothDone(v, w) =>
      /\ workers[v].result.is_new # workers[w].result.is_new
      /\ workers[v].result.created_at_utc = workers[w].result.created_at_utc
      /\ workers[v].result.created_at_utc
           = snapFiles[SnapshotDirOf(workers[v].input)].metadata.created_at_utc

\* C29, what does hold: at least one of the two reports is_new = true, both
\* report the same snapshot_id, and metadata.json holds the created_at_utc one
\* of them reports
C29_SomeoneCreates ==
  \A v, w \in Workers :
    BothDone(v, w) =>
      /\ workers[v].result.is_new \/ workers[w].result.is_new
      /\ workers[v].result.snapshot_id = workers[w].result.snapshot_id
      /\ snapFiles[SnapshotDirOf(workers[v].input)].metadata.created_at_utc
           \in {workers[v].result.created_at_utc, workers[w].result.created_at_utc}

=============================================================================
